---- MODULE Spec2Model ----
(***************************************************************************)
(* A model of the TikTok like-exchange bot (bot.py over database.py).      *)
(*                                                                         *)
(* The state is the content of the five SQLite tables (users, videos,      *)
(* likes, settings, spam_protection), the AUTOINCREMENT counter of videos, *)
(* the wall clock, the per-user conversation state kept by the dispatcher  *)
(* and the reply produced by the step just taken.  Every action is one     *)
(* handler of bot.py, run to completion, with every Database call it       *)
(* makes.                                                                  *)
(*                                                                         *)
(* Time.  The clock `now` counts ticks of 1/SubSec second.  Python writes  *)
(* timestamps with strftime("%Y-%m-%d %H:%M:%S"), which drops the          *)
(* fraction of the second: Sec(now) is the stored value, in whole seconds. *)
(* Python's datetime.now() reads local time; SQLite's datetime('now') is   *)
(* UTC.  utc_offset is local time minus UTC, in seconds, fixed when the    *)
(* process starts: `now` is the local clock, now - utc_offset the UTC one. *)
(***************************************************************************)
EXTENDS Integers, FiniteSets, Sequences, Bags, TLC

(* ------------------------------ bounds -------------------------------- *)

\* videos ever inserted (the AUTOINCREMENT counter stops here)
MaxVideos == 2

\* clock ticks per second
SubSec == 3

\* clock steps a behaviour of Spec takes
MaxSteps == 1

\* SpecStreak: videos in the queue at the start, how many of them the liker
\* has liked already, days that pass
SeedVideos == 10
SeedLikes == 4
MaxDays == 1

\* SpecScenario: videos in the queue at the start, clock steps
ScenarioVideos == 3
ScenarioSteps == 3

\* SpecQueue: video ids given so far, the latest submission time in seconds,
\* the largest page size
QueueVideos == 5
QueueTimes == 2
MaxLimit == 3

\* SpecSpam: the spam_timeout setting in seconds, windows that pass
SpamTimeout == 1
SpamWindows == 2

\* SpecPager: the most videos in the queue
PagerVideos == 21

\* SpecTuning: a value the admin gives to a scoring setting
TuningValue == 2

\* SpecRace: the bound on the AUTOINCREMENT counter of videos
RaceVideos == 3

\* SpecBonus: the level_threshold setting
BonusThreshold == 10

\* SpecChurn: how many of the videos not liked at the start an admin may delete
ChurnDeletes == 2

\* SpecAdmin: how many times the level threshold an admin hands out in
\* points, the highest level an admin sets
MaxPointSteps == 2
MaxLevel == 3

(* ------------------------- program constants -------------------------- *)

DEFAULT_LIKES_REQUIRED == 3
DEFAULT_POINTS_PER_LIKE == 5
DEFAULT_POINTS_PER_SUBMISSION == 10
DEFAULT_LEVEL_THRESHOLD == 50
DEFAULT_SPAM_TIMEOUT == 5

\* datetime('now', '-1 day'), in seconds
DaySeconds == 86400

\* bonus points per level on a level-up, per five likes of a streak
LevelBonusFactor == 10
StreakLength == 5
StreakBonusFactor == 15

\* page size of the queue view
PageSize == 10

(* ------------------------------ domains ------------------------------- *)

\* the senders of the model; ADMIN_IDS is the static list of config.py
UserIds == {1, 2, 3}
ADMIN_IDS == {1}

\* time zones of the host: UTC and UTC+3, as local time minus UTC in seconds
UtcOffsets == {0, 10800}

Commands == {"start", "submit", "like", "queue", "status", "leaderboard"}

SettingKeys ==
    {"likes_required", "points_per_like", "points_per_submission",
     "level_threshold", "spam_timeout"}

VARIABLES
    users,            \* users table: user_id -> row (a partial function)
    videos,           \* videos table: id -> row (a partial function)
    video_seq,        \* AUTOINCREMENT counter of videos: the last id given
    likes,            \* likes table: a bag of rows (user_id, video_id, like_time)
    settings,         \* settings table: key -> value
    spam_protection,  \* spam_protection table: <<user_id, command>> -> timestamp
    now,              \* wall clock (local time), in ticks
    utc_offset,       \* local time minus UTC, in seconds
    inflight,         \* requests being handled by concurrent processes
    streak_paid,      \* (history) the streak bonuses announced: a bag of <<user, bonus>>
    fsm,              \* dispatcher storage: user -> conversation state and data
    reply             \* what the step just taken answered

vars ==
    <<users, videos, video_seq, likes, settings, spam_protection, now, utc_offset,
      inflight, streak_paid, fsm, reply>>
ledger == <<users, videos, video_seq, likes>>

(* ------------------------------- time --------------------------------- *)

\* strftime("%Y-%m-%d %H:%M:%S"): the timestamp stored, in whole seconds
Sec(t) == t \div SubSec

(* ------------------------------- input -------------------------------- *)

\* the text after a command, or a message typed in a conversation: nothing,
\* a numeral, a TikTok link, or anything else
NoText == [kind |-> "none", n |-> 0]
BadText == [kind |-> "bad", n |-> 0]
UrlText == [kind |-> "url", n |-> 0]
Numeral(n) == [kind |-> "int", n |-> n]

\* int(text.strip()) succeeds (it raises ValueError otherwise)
is_int(text) == text.kind = "int"

\* is_valid_tiktok_url(url)
is_valid_tiktok_url(text) == text.kind = "url"

(* ------------------------------ replies ------------------------------- *)

\* kind: which message; user: to whom; n: the number it quotes; level,
\* level_bonus, streak_bonus: the level and the bonuses it announces (0: none);
\* command: the command a refusal of the spam guard answers; rows: the video
\* ids listed so far; limit, offset: the page of the queue that was read;
\* prev, next: the offsets in the callback data of the Previous and the Next
\* button under the message (-1: no such button); sent: the deliveries of an
\* announcement that were attempted, in their order
Reply(kind, user, n) ==
    [kind |-> kind, user |-> user, n |-> n,
     level |-> 0, level_bonus |-> 0, streak_bonus |-> 0, command |-> "none",
     rows |-> << >>, limit |-> 0, offset |-> 0, prev |-> -1, next |-> -1,
     sent |-> << >>]

NoReply == Reply("none", 0, 0)

(* ------------------------------ settings ------------------------------ *)

default_settings ==
    [likes_required |-> DEFAULT_LIKES_REQUIRED,
     points_per_like |-> DEFAULT_POINTS_PER_LIKE,
     points_per_submission |-> DEFAULT_POINTS_PER_SUBMISSION,
     level_threshold |-> DEFAULT_LEVEL_THRESHOLD,
     spam_timeout |-> DEFAULT_SPAM_TIMEOUT]

get_likes_required == settings.likes_required

(* ------------------------------- users -------------------------------- *)

NewUser ==
    [likes_given |-> 0, videos_submitted |-> 0, points |-> 0, level |-> 1,
     is_admin |-> 0]

\* INSERT OR IGNORE INTO users
add_user(us, user_id) ==
    IF user_id \in DOMAIN us THEN us ELSE us @@ (user_id :> NewUser)

\* SELECT is_admin ...; result and result['is_admin'] == 1
is_admin(user_id) ==
    user_id \in DOMAIN users /\ users[user_id].is_admin = 1

\* UPDATE users SET is_admin = ? WHERE user_id = ?
set_admin_status(us, user_id, flag) ==
    IF user_id \in DOMAIN us
    THEN [us EXCEPT ![user_id].is_admin = IF flag THEN 1 ELSE 0]
    ELSE us

(* ---------------------------- spam guard ------------------------------ *)

\* time_diff > timeout, with time_diff = now - last_execution in seconds:
\* now carries the fraction of the second, the stored timestamp does not
can_execute_command(user_id, command) ==
    IF <<user_id, command>> \notin DOMAIN spam_protection
    THEN TRUE
    ELSE now > (spam_protection[<<user_id, command>>].timestamp + settings.spam_timeout) * SubSec

\* a row of spam_protection written at clock value t: the timestamp column,
\* and (history, read by no handler) the clock value itself
SpamRow(t) == [timestamp |-> Sec(t), at |-> t]

\* INSERT OR REPLACE INTO spam_protection
record_command(sp, user_id, command) ==
    [k \in DOMAIN sp \cup {<<user_id, command>>} |->
        IF k = <<user_id, command>> THEN SpamRow(now) ELSE sp[k]]

\* admins bypass spam protection
spam_bypass(user_id) == user_id \in ADMIN_IDS \/ is_admin(user_id)

\* check_spam's result: TRUE when the command is refused
check_spam(user_id, command) ==
    ~spam_bypass(user_id) /\ ~can_execute_command(user_id, command)

\* faulty variant: a refused invocation is recorded as well
check_spam_table_refusal_recorded(user_id, command) ==
    IF spam_bypass(user_id)
    THEN spam_protection
    ELSE record_command(spam_protection, user_id, command)

\* check_spam's effect on the spam_protection table
check_spam_table(user_id, command) ==
    IF spam_bypass(user_id) \/ ~can_execute_command(user_id, command)
    THEN spam_protection
    ELSE record_command(spam_protection, user_id, command)

SpamReply(user_id, command) ==
    [Reply("spam", user_id, 0) EXCEPT !.command = command]

(* --------------------------- conversation ----------------------------- *)

\* processes that handle requests side by side, and none at work
Procs == {1, 2}
NoRequests == [p \in Procs |-> [pc |-> "idle"]]

FsmIdle == [state |-> "none", admin_action |-> "none", target_user_id |-> 0]

\* handlers registered without a state serve a user who is in no state
InNoState(user_id) == fsm[user_id].state = "none"

(* ------------------------------ /start -------------------------------- *)

cmd_start(u) ==
    /\ InNoState(u)
    /\ spam_protection' = check_spam_table(u, "start")
    /\ UNCHANGED <<videos, video_seq, likes, settings, now, utc_offset, inflight, streak_paid, fsm>>
    /\ IF check_spam(u, "start")
       THEN /\ reply' = SpamReply(u, "start")
            /\ UNCHANGED users
       ELSE LET us1 == add_user(users, u)
                us2 == IF u \in ADMIN_IDS /\ us1[u].is_admin # 1
                       THEN set_admin_status(us1, u, TRUE)
                       ELSE us1
            IN /\ users' = us2
               /\ reply' = Reply("welcome", u, get_likes_required)

(* ------------------------------ scoring ------------------------------- *)

\* new_level = (user['points'] // level_threshold) + 1
new_level(points, level_threshold) == (points \div level_threshold) + 1

\* faulty variant: the level is written whatever it was
scored_level_rewritten(row, points_awarded) ==
    LET points == row.points + points_awarded
    IN [row EXCEPT !.points = points,
                   !.level = new_level(points, settings.level_threshold)]

\* the UPDATE of the counter and the points, then the level check
\* (increment_user_likes and increment_user_submissions differ in the counter
\* and in the setting read)
scored(row, points_awarded) ==
    LET points == row.points + points_awarded
        nl == new_level(points, settings.level_threshold)
    IN [row EXCEPT !.points = points,
                   !.level = IF nl > row.level THEN nl ELSE row.level]

\* faulty variant: a like is paid as a submission is
increment_user_likes_paid_as_submission(us, user_id) ==
    [us EXCEPT ![user_id] =
        [scored(@, settings.points_per_submission) EXCEPT !.likes_given = @ + 1]]

increment_user_likes(us, user_id) ==
    [us EXCEPT ![user_id] =
        [scored(@, settings.points_per_like) EXCEPT !.likes_given = @ + 1]]

\* faulty variant: a submission uses up the likes that opened the gate
increment_user_submissions_quota_spent(us, user_id) ==
    [us EXCEPT ![user_id] =
        [scored(@, settings.points_per_submission) EXCEPT !.videos_submitted = @ + 1,
                                                           !.likes_given = 0]]

\* faulty variant: a submission is paid at the seeded default
increment_user_submissions_at_default(us, user_id) ==
    [us EXCEPT ![user_id] =
        [scored(@, DEFAULT_POINTS_PER_SUBMISSION) EXCEPT !.videos_submitted = @ + 1]]

increment_user_submissions(us, user_id) ==
    [us EXCEPT ![user_id] =
        [scored(@, settings.points_per_submission) EXCEPT !.videos_submitted = @ + 1]]

\* return new_level > user['level']
leveled_up(us_before, us_after, user_id) ==
    us_after[user_id].level > us_before[user_id].level

\* faulty variant: the bonus is counted from the level that was left
level_bonus_of_old_level(did_level_up, level) ==
    IF did_level_up /\ level > 1 THEN (level - 1) * LevelBonusFactor ELSE 0

\* bonus_points = user_data['level'] * 10, when leveled_up and level > 1
level_bonus(did_level_up, level) ==
    IF did_level_up /\ level > 1 THEN level * LevelBonusFactor ELSE 0

\* faulty variant: the level is computed again after the bonus
add_points_rescored(us, user_id, points) ==
    IF user_id \in DOMAIN us
    THEN [us EXCEPT ![user_id] = scored(@, points)]
    ELSE us

\* UPDATE users SET points = points + ? WHERE user_id = ?
add_points(us, user_id, points) ==
    IF user_id \in DOMAIN us
    THEN [us EXCEPT ![user_id].points = @ + points]
    ELSE us

(* ------------------------------ videos -------------------------------- *)

\* INSERT INTO videos (user_id, tiktok_url, submission_time)
add_video(vs, user_id) ==
    vs @@ ((video_seq + 1) :>
            [user_id |-> user_id, submission_time |-> Sec(now), likes_count |-> 0])

\* SELECT * FROM videos WHERE id = ?
get_video(video_id) == video_id \in DOMAIN videos

\* faulty variant: the likes of the video are left in place
delete_video_likes_kept(ls, video_id) == ls

\* DELETE FROM likes WHERE video_id = ?
delete_video_likes(ls, video_id) ==
    [l \in {x \in DOMAIN ls : x.video_id # video_id} |-> ls[l]]

\* DELETE FROM videos WHERE id = ?
delete_video_row(vs, video_id) ==
    [v \in DOMAIN vs \ {video_id} |-> vs[v]]

\* ORDER BY v.submission_time ASC; rows of equal time come in rowid order
queue_before(v, w) ==
    \/ videos[v].submission_time < videos[w].submission_time
    \/ videos[v].submission_time = videos[w].submission_time /\ v < w

\* FROM videos v JOIN users u ON v.user_id = u.user_id
queue_rows == {v \in DOMAIN videos : videos[v].user_id \in DOMAIN users}

\* the whole ordered result: the i-th row is the one with i - 1 rows before it
queue_sorted ==
    [i \in 1 .. Cardinality(queue_rows) |->
        CHOOSE v \in queue_rows :
            Cardinality({w \in queue_rows : queue_before(w, v)}) = i - 1]

\* faulty variant: the page starts one row early
get_queue_one_early(limit, offset) ==
    SubSeq(queue_sorted, IF offset = 0 THEN 1 ELSE offset,
           IF offset + limit < Len(queue_sorted) THEN offset + limit ELSE Len(queue_sorted))

\* LIMIT ? OFFSET ?
get_queue(limit, offset) ==
    SubSeq(queue_sorted, offset + 1,
           IF offset + limit < Len(queue_sorted) THEN offset + limit ELSE Len(queue_sorted))

(* ------------------------------- likes -------------------------------- *)

\* faulty variant: the duplicate check finds nothing
has_liked_video_never(user_id, video_id) == FALSE

\* SELECT id FROM likes WHERE user_id = ? AND video_id = ?
has_liked_video(user_id, video_id) ==
    \E l \in DOMAIN likes : l.user_id = user_id /\ l.video_id = video_id

LikeRow(user_id, video_id) ==
    [user_id |-> user_id, video_id |-> video_id, like_time |-> Sec(now)]

\* add_like's result: False when the row is there already
add_like(user_id, video_id) == ~has_liked_video(user_id, video_id)

\* add_like's INSERT INTO likes
add_like_rows(user_id, video_id) ==
    IF add_like(user_id, video_id)
    THEN likes (+) SetToBag({LikeRow(user_id, video_id)})
    ELSE likes

\* faulty variant: the counter of the video is left as it is
add_like_count_skipped(user_id, video_id) == videos

\* add_like's UPDATE videos SET likes_count = likes_count + 1
add_like_count(user_id, video_id) ==
    IF add_like(user_id, video_id) /\ video_id \in DOMAIN videos
    THEN [videos EXCEPT ![video_id].likes_count = @ + 1]
    ELSE videos

\* datetime('now', '-1 day'): SQLite's clock is UTC
sqlite_day_ago == (Sec(now) - utc_offset) - DaySeconds

\* SELECT COUNT(*) FROM likes WHERE user_id = ? AND like_time > datetime('now', '-1 day')
\* (like_time was written by Python, in local time)
streak_count(ls, user_id) ==
    BagCardinality(
        [l \in {x \in DOMAIN ls : x.user_id = user_id /\ x.like_time > sqlite_day_ago}
            |-> ls[l]])

\* streak // 5 * 15 when streak > 0 and streak % 5 == 0
streak_bonus(streak) ==
    IF streak > 0 /\ streak % StreakLength = 0
    THEN (streak \div StreakLength) * StreakBonusFactor
    ELSE 0

(* --------------------------- reciprocity gate ------------------------- *)

\* faulty variant: the quota must be exceeded, not met
can_submit_video_strict(user_id) ==
    user_id \in DOMAIN users /\ users[user_id].likes_given > get_likes_required

\* faulty variant: the quota is not looked at
can_submit_video_unchecked(user_id) == user_id \in DOMAIN users

\* user and user['likes_given'] >= likes_required
can_submit_video(user_id) ==
    user_id \in DOMAIN users /\ users[user_id].likes_given >= get_likes_required

\* likes_needed = likes_required - likes_given
likes_needed(user_id) == get_likes_required - users[user_id].likes_given

(* ------------------------------ /submit ------------------------------- *)

SubmitArgs == {NoText, BadText, Numeral(1), UrlText}

\* cap: the bound on the AUTOINCREMENT counter
cmd_submit(u, arg, cap) ==
    /\ InNoState(u)
    /\ spam_protection' = check_spam_table(u, "submit")
    /\ UNCHANGED <<likes, settings, now, utc_offset, inflight, streak_paid, fsm>>
    /\ IF check_spam(u, "submit")
       THEN /\ reply' = SpamReply(u, "submit")
            /\ UNCHANGED <<users, videos, video_seq>>
       ELSE IF ~can_submit_video(u)
       THEN \* db.get_user(user_id)['likes_given'] raises for a sender with no row
            /\ reply' = IF u \in DOMAIN users
                        THEN Reply("need_likes", u, likes_needed(u))
                        ELSE Reply("error", u, 0)
            /\ UNCHANGED <<users, videos, video_seq>>
       ELSE IF arg = NoText
       THEN /\ reply' = Reply("submit_usage", u, 0)
            /\ UNCHANGED <<users, videos, video_seq>>
       ELSE IF ~is_valid_tiktok_url(arg)
       THEN /\ reply' = Reply("bad_url", u, 0)
            /\ UNCHANGED <<users, videos, video_seq>>
       ELSE LET us1 == increment_user_submissions(users, u)
                up == leveled_up(users, us1, u)
                lb == level_bonus(up, us1[u].level)
            IN /\ video_seq < cap
               /\ videos' = add_video(videos, u)
               /\ video_seq' = video_seq + 1
               /\ users' = add_points(us1, u, lb)
               /\ reply' = [Reply("submitted", u, video_seq + 1) EXCEPT
                               !.level = IF up THEN us1[u].level ELSE 0,
                               !.level_bonus = lb]

(* ------------------------------- /like -------------------------------- *)

\* faulty variant: the owner check compares the video id with the user id
is_own_video_by_id(user_id, video_id) == video_id = user_id

\* video['user_id'] == user_id
is_own_video(user_id, video_id) == videos[video_id].user_id = user_id

LikeArgs == {NoText, BadText} \cup {Numeral(n) : n \in 1 .. MaxVideos + 1}

\* faulty variant: a refused like is counted all the same
like_rejected_but_counted(r) ==
    /\ reply' = r
    /\ users' = IF r.user \in DOMAIN users
                THEN [users EXCEPT ![r.user].likes_given = @ + 1]
                ELSE users
    /\ UNCHANGED <<videos, likes>>

\* await message.reply(...); return: a like that is refused
like_rejected(r) ==
    /\ reply' = r
    /\ UNCHANGED <<users, videos, likes>>

\* (history) the streak bonus that the reply r announces, added to the bag
streak_announced(paid, r) ==
    IF r.kind = "liked" /\ r.streak_bonus > 0
    THEN paid (+) SetToBag({<<r.user, r.streak_bonus>>})
    ELSE paid

cmd_like(u, arg) ==
    LET video_id == arg.n IN
    /\ InNoState(u)
    /\ spam_protection' = check_spam_table(u, "like")
    /\ UNCHANGED <<video_seq, settings, now, utc_offset, inflight, fsm>>
    /\ IF check_spam(u, "like")
       THEN /\ reply' = SpamReply(u, "like")
            /\ UNCHANGED <<users, videos, likes>>
       ELSE IF arg = NoText
       THEN /\ reply' = Reply("like_usage", u, 0)
            /\ UNCHANGED <<users, videos, likes>>
       ELSE IF ~is_int(arg)
       THEN /\ reply' = Reply("bad_id", u, 0)
            /\ UNCHANGED <<users, videos, likes>>
       ELSE IF ~get_video(video_id)
       THEN like_rejected(Reply("not_found", u, video_id))
       ELSE IF is_own_video(u, video_id)
       THEN like_rejected(Reply("own_video", u, video_id))
       ELSE IF has_liked_video(u, video_id)
       THEN like_rejected(Reply("already_liked", u, video_id))
       ELSE LET ls1 == add_like_rows(u, video_id)
            IN /\ likes' = ls1
               /\ videos' = add_like_count(u, video_id)
               /\ IF u \notin DOMAIN users
                  THEN \* increment_user_likes raises on the missing row,
                       \* after add_like has committed
                       /\ users' = users
                       /\ reply' = Reply("error", u, video_id)
                  ELSE LET us1 == increment_user_likes(users, u)
                           up == leveled_up(users, us1, u)
                           lb == level_bonus(up, us1[u].level)
                           sb == streak_bonus(streak_count(ls1, u))
                       IN /\ users' = add_points(add_points(us1, u, lb), u, sb)
                          /\ reply' = [Reply("liked", u, video_id) EXCEPT
                                          !.level = IF up THEN us1[u].level ELSE 0,
                                          !.level_bonus = lb,
                                          !.streak_bonus = sb]
    /\ streak_paid' = streak_announced(streak_paid, reply')

(* ---------------------------- admin panel ----------------------------- *)

\* a callback handler that asks for input: the denial, or
\* BotStates.<state>.set() and state.update_data(admin_action=...)
admin_prompt(u, state, action) ==
    /\ UNCHANGED <<users, videos, video_seq, likes, settings, spam_protection, now, utc_offset,
                   inflight, streak_paid>>
    /\ IF ~is_admin(u)
       THEN /\ reply' = Reply("denied", u, 0)
            /\ UNCHANGED fsm
       ELSE /\ reply' = Reply("prompt", u, 0)
            /\ fsm' = [fsm EXCEPT ![u] = [@ EXCEPT !.state = state,
                                                   !.admin_action = action]]

admin_delete_video(u) == admin_prompt(u, "waiting_for_admin_action", "delete_video")

admin_set_likes_required(u) ==
    admin_prompt(u, "waiting_for_admin_action", "set_likes_required")

admin_set_spam_timeout(u) ==
    admin_prompt(u, "waiting_for_admin_action", "set_spam_timeout")

admin_set_points_per_like(u) ==
    admin_prompt(u, "waiting_for_admin_action", "set_points_per_like")

admin_set_points_per_submission(u) ==
    admin_prompt(u, "waiting_for_admin_action", "set_points_per_submission")

admin_set_level_threshold(u) ==
    admin_prompt(u, "waiting_for_admin_action", "set_level_threshold")

\* faulty variant: the queue is cleared for whoever asks
admin_confirm_clear_queue_unguarded(u) ==
    /\ UNCHANGED <<users, video_seq, settings, spam_protection, now, utc_offset,
                   inflight, streak_paid, fsm>>
    /\ likes' = EmptyBag
    /\ videos' = << >>
    /\ reply' = Reply("cleared", u, 0)

\* DELETE FROM likes; DELETE FROM videos
admin_confirm_clear_queue(u) ==
    /\ UNCHANGED <<users, video_seq, settings, spam_protection, now, utc_offset,
                   inflight, streak_paid, fsm>>
    /\ IF ~is_admin(u)
       THEN /\ reply' = Reply("denied", u, 0)
            /\ UNCHANGED <<videos, likes>>
       ELSE /\ likes' = EmptyBag
            /\ videos' = << >>
            /\ reply' = Reply("cleared", u, 0)

\* SELECT user_id FROM users: the rows in the order of the primary key
user_ids(us) ==
    [i \in 1 .. Cardinality(DOMAIN us) |->
        CHOOSE u \in DOMAIN us : Cardinality({w \in DOMAIN us : w < u}) = i - 1]

\* faulty variant: the first failed delivery ends the loop
RECURSIVE announce_until_failure(_, _)
announce_until_failure(recipients, failing) ==
    IF recipients = << >>
    THEN << >>
    ELSE IF Head(recipients) \in failing
    THEN << [to |-> Head(recipients), ok |-> FALSE] >>
    ELSE << [to |-> Head(recipients), ok |-> TRUE] >>
         \o announce_until_failure(Tail(recipients), failing)

\* for user in users: try: await bot.send_message(...) except Exception: log
\* failing: the recipients to whom bot.send_message raises
RECURSIVE announce(_, _)
announce(recipients, failing) ==
    IF recipients = << >>
    THEN << >>
    ELSE << [to |-> Head(recipients), ok |-> Head(recipients) \notin failing] >>
         \o announce(Tail(recipients), failing)

\* sent_count: incremented after every bot.send_message that returned
sent_count(out) == Cardinality({i \in 1 .. Len(out) : out[i].ok})

\* faulty variant: whatever number is typed is stored
set_setting_unchecked(u, key, low, text) ==
    IF ~is_int(text)
    THEN /\ reply' = Reply("bad_number", u, 0)
         /\ UNCHANGED settings
    ELSE /\ settings' = [settings EXCEPT ![key] = text.n]
         /\ reply' = Reply("setting_set", u, text.n)

\* db.update_setting(key, str(value)): the branch of one setting
\* low: the least value the branch accepts
set_setting(u, key, low, text) ==
    IF ~is_int(text)
    THEN /\ reply' = Reply("bad_number", u, 0)
         /\ UNCHANGED settings
    ELSE IF text.n < low
    THEN /\ reply' = Reply("refused", u, text.n)
         /\ UNCHANGED settings
    ELSE /\ settings' = [settings EXCEPT ![key] = text.n]
         /\ reply' = Reply("setting_set", u, text.n)

process_admin_action(u, text) ==
    /\ fsm[u].state = "waiting_for_admin_action"
    /\ fsm' = [fsm EXCEPT ![u] = FsmIdle]
    /\ UNCHANGED <<users, video_seq, spam_protection, now, utc_offset, inflight, streak_paid>>
    /\ IF ~is_admin(u)
       THEN /\ reply' = NoReply
            /\ UNCHANGED <<videos, likes, settings>>
       ELSE IF fsm[u].admin_action = "delete_video"
       THEN /\ UNCHANGED settings
            /\ IF ~is_int(text)
               THEN /\ reply' = Reply("bad_id", u, 0)
                    /\ UNCHANGED <<videos, likes>>
               ELSE IF ~get_video(text.n)
               THEN /\ reply' = Reply("not_found", u, text.n)
                    /\ UNCHANGED <<videos, likes>>
               ELSE /\ likes' = delete_video_likes(likes, text.n)
                    /\ videos' = delete_video_row(videos, text.n)
                    /\ reply' = Reply("deleted", u, text.n)
       ELSE /\ UNCHANGED <<videos, likes>>
            /\ CASE fsm[u].admin_action = "set_likes_required" ->
                        set_setting(u, "likes_required", 0, text)
                 [] fsm[u].admin_action = "set_spam_timeout" ->
                        set_setting(u, "spam_timeout", 0, text)
                 [] fsm[u].admin_action = "set_points_per_like" ->
                        set_setting(u, "points_per_like", 0, text)
                 [] fsm[u].admin_action = "set_points_per_submission" ->
                        set_setting(u, "points_per_submission", 0, text)
                 [] fsm[u].admin_action = "set_level_threshold" ->
                        set_setting(u, "level_threshold", 1, text)
                 [] fsm[u].admin_action = "announcement" ->
                        /\ UNCHANGED settings
                        /\ IF text = NoText
                           THEN reply' = Reply("empty_text", u, 0)
                           ELSE \E failing \in SUBSET DOMAIN users :
                                    LET out == announce(user_ids(users), failing)
                                    IN reply' = [Reply("announced", u, sent_count(out))
                                                    EXCEPT !.sent = out]
                 [] OTHER -> reply' = NoReply /\ UNCHANGED settings

admin_announcement(u) == admin_prompt(u, "waiting_for_admin_action", "announcement")

admin_add_admin(u) == admin_prompt(u, "waiting_for_admin_user_id", "add_admin")

admin_reset_likes(u) == admin_prompt(u, "waiting_for_admin_user_id", "reset_likes")

admin_add_points(u) == admin_prompt(u, "waiting_for_admin_user_id", "add_points")

admin_set_level(u) == admin_prompt(u, "waiting_for_admin_user_id", "set_level")

admin_block_user(u) == admin_prompt(u, "waiting_for_admin_user_id", "block_user")

\* datetime('now', '+100 years') - datetime('now'), in seconds.  A century
\* has 36524 days, and that many seconds are more than TLC's integers hold;
\* the block is modelled as one of 1000 days, which like a century lies past
\* every clock value that a behaviour of this module reaches.
HundredYears == 1000 * DaySeconds

\* INSERT OR REPLACE INTO spam_protection ... datetime('now', '+100 years'),
\* for every command
block_user(sp, user_id) ==
    [k \in DOMAIN sp \cup {<<user_id, c>> : c \in Commands} |->
        IF k[1] = user_id
        THEN [timestamp |-> (Sec(now) - utc_offset) + HundredYears, at |-> now]
        ELSE sp[k]]

process_admin_user_id(u, text) ==
    LET action == fsm[u].admin_action
        target_user_id == text.n
        finish == [fsm EXCEPT ![u] = FsmIdle]
    IN
    /\ fsm[u].state = "waiting_for_admin_user_id"
    /\ UNCHANGED <<videos, video_seq, likes, settings, now, utc_offset, inflight, streak_paid>>
    /\ IF ~is_admin(u)
       THEN /\ fsm' = finish
            /\ reply' = NoReply
            /\ UNCHANGED <<users, spam_protection>>
       ELSE IF ~is_int(text)
       THEN /\ fsm' = finish
            /\ reply' = Reply("bad_id", u, 0)
            /\ UNCHANGED <<users, spam_protection>>
       ELSE IF target_user_id \notin DOMAIN users
       THEN /\ fsm' = finish
            /\ reply' = Reply("user_not_found", u, target_user_id)
            /\ UNCHANGED <<users, spam_protection>>
       ELSE CASE action = "add_admin" ->
                    /\ users' = set_admin_status(users, target_user_id, TRUE)
                    /\ reply' = Reply("admin_added", u, target_user_id)
                    /\ fsm' = finish
                    /\ UNCHANGED spam_protection
              [] action = "reset_likes" ->
                    /\ users' = [users EXCEPT ![target_user_id].likes_given = 0]
                    /\ reply' = Reply("likes_reset", u, target_user_id)
                    /\ fsm' = finish
                    /\ UNCHANGED spam_protection
              [] action = "add_points" ->
                    /\ reply' = Reply("prompt", u, target_user_id)
                    /\ fsm' = [fsm EXCEPT ![u] =
                                  [@ EXCEPT !.state = "waiting_for_admin_points",
                                            !.target_user_id = target_user_id]]
                    /\ UNCHANGED <<users, spam_protection>>
              [] action = "set_level" ->
                    /\ reply' = Reply("prompt", u, target_user_id)
                    /\ fsm' = [fsm EXCEPT ![u] =
                                  [@ EXCEPT !.state = "waiting_for_admin_level",
                                            !.target_user_id = target_user_id]]
                    /\ UNCHANGED <<users, spam_protection>>
              [] action = "block_user" ->
                    /\ spam_protection' = block_user(spam_protection, target_user_id)
                    /\ reply' = Reply("blocked", u, target_user_id)
                    /\ fsm' = finish
                    /\ UNCHANGED users
              [] OTHER ->
                    /\ reply' = NoReply
                    /\ UNCHANGED <<users, spam_protection, fsm>>

\* cap: the bound on the points an admin hands out (and takes away)
process_admin_points(u, text, cap) ==
    LET target_user_id == fsm[u].target_user_id
        points == text.n
    IN
    /\ fsm[u].state = "waiting_for_admin_points"
    /\ fsm' = [fsm EXCEPT ![u] = FsmIdle]
    /\ UNCHANGED <<videos, video_seq, likes, settings, spam_protection, now, utc_offset,
                   inflight, streak_paid>>
    /\ IF ~is_admin(u)
       THEN /\ reply' = NoReply
            /\ UNCHANGED users
       ELSE IF ~is_int(text)
       THEN /\ reply' = Reply("bad_number", u, 0)
            /\ UNCHANGED users
       ELSE IF target_user_id \notin DOMAIN users
       THEN \* the UPDATE changes no row and the SELECT finds none: user['points'] raises
            /\ reply' = NoReply
            /\ UNCHANGED users
       ELSE LET row == scored(users[target_user_id], points)
            IN /\ row.points <= cap
               /\ row.points >= -cap
               /\ users' = [users EXCEPT ![target_user_id] = row]
               /\ reply' = [Reply("points_added", u, points) EXCEPT
                               !.level = IF row.level > users[target_user_id].level
                                         THEN row.level ELSE 0]

\* UPDATE users SET level = ? WHERE user_id = ?
set_level(us, user_id, level) ==
    IF user_id \in DOMAIN us
    THEN [us EXCEPT ![user_id].level = level]
    ELSE us

process_admin_level(u, text) ==
    LET target_user_id == fsm[u].target_user_id
        level == text.n
    IN
    /\ fsm[u].state = "waiting_for_admin_level"
    /\ fsm' = [fsm EXCEPT ![u] = FsmIdle]
    /\ UNCHANGED <<videos, video_seq, likes, settings, spam_protection, now, utc_offset,
                   inflight, streak_paid>>
    /\ IF ~is_admin(u)
       THEN /\ reply' = NoReply
            /\ UNCHANGED users
       ELSE IF ~is_int(text)
       THEN /\ reply' = Reply("bad_number", u, 0)
            /\ UNCHANGED users
       ELSE IF level < 1
       THEN /\ reply' = Reply("refused", u, level)
            /\ UNCHANGED users
       ELSE /\ users' = set_level(users, target_user_id, level)
            /\ reply' = Reply("level_set", u, level)

(* ------------------------------ callbacks ----------------------------- *)

\* /admin: the panel, for an admin; nothing at all for anybody else
cmd_admin(u) ==
    /\ InNoState(u)
    /\ reply' = IF is_admin(u) THEN Reply("panel", u, 0) ELSE Reply("ignored", u, 0)
    /\ UNCHANGED <<users, videos, video_seq, likes, settings, spam_protection, now,
                   utc_offset, inflight, streak_paid, fsm>>

\* callback data: words is callback_query.data.split('_'), n the number that
\* the last word of a queue_ payload spells
Data(words) == [words |-> words, n |-> 0]
QueueData(action, offset) == [words |-> <<"queue", action>>, n |-> offset]

\* c.data.startswith(prefix + '_')
starts_with(data, prefix) == Len(data.words) >= 2 /\ data.words[1] = prefix

\* SELECT COUNT(*) as count FROM videos
total_videos == Cardinality(DOMAIN videos)

\* /queue: the first page; the two buttons when there are more videos than
\* one page holds
cmd_queue(u) ==
    LET queue == get_queue(PageSize, 0)
        more == total_videos > PageSize
    IN /\ InNoState(u)
       /\ spam_protection' = check_spam_table(u, "queue")
       /\ reply' = IF check_spam(u, "queue")
                   THEN SpamReply(u, "queue")
                   ELSE IF queue = << >>
                   THEN Reply("queue_empty", u, 0)
                   ELSE [Reply("queue", u, Len(queue)) EXCEPT
                            !.rows = queue, !.limit = PageSize, !.offset = 0,
                            !.prev = IF more THEN 0 ELSE -1,
                            !.next = IF more THEN PageSize ELSE -1]
       /\ UNCHANGED <<users, videos, video_seq, likes, settings, now, utc_offset,
                      inflight, streak_paid, fsm>>

\* max(0, offset - 10)
offset_before(offset) == IF offset > PageSize THEN offset - PageSize ELSE 0

\* a press of a button of the queue: the page at new_offset replaces the
\* message, with a Previous button when it is not the first page and a Next
\* button when videos follow it
process_queue_pagination(u, data) ==
    LET action == data.words[2]
        offset == data.n
        new_offset == IF action = "prev" THEN offset_before(offset) ELSE offset
        queue == get_queue(PageSize, new_offset)
    IN /\ reply' = IF queue = << >>
                   THEN Reply("no_more", u, 0)
                   ELSE [Reply("queue", u, Len(queue)) EXCEPT
                            !.rows = queue, !.limit = PageSize, !.offset = new_offset,
                            !.prev = IF new_offset > 0 THEN offset_before(new_offset) ELSE -1,
                            !.next = IF new_offset + PageSize < total_videos
                                     THEN new_offset + PageSize ELSE -1]
       /\ UNCHANGED <<users, videos, video_seq, likes, settings, spam_protection, now,
                      utc_offset, inflight, streak_paid, fsm>>

\* the user presses the Previous button, the Next button, of the page that
\* the bot has shown last
queue_previous(u) ==
    /\ reply.kind = "queue"
    /\ reply.user = u
    /\ reply.prev >= 0
    /\ process_queue_pagination(u, QueueData("prev", reply.prev))

queue_next(u) ==
    /\ reply.kind = "queue"
    /\ reply.user = u
    /\ reply.next >= 0
    /\ process_queue_pagination(u, QueueData("next", reply.next))

\* the sections of the admin panel
PanelSections == {"users", "queue", "settings", "stats", "back"}

\* action = callback_query.data.split('_')[1]: a section of the panel is
\* shown; any other word falls through the elif chain, and the callback is
\* answered
process_admin_callback(u, data) ==
    LET action == data.words[2]
    IN /\ reply' = IF ~is_admin(u)
                   THEN Reply("denied", u, 0)
                   ELSE IF action \in PanelSections
                   THEN [Reply("panel", u, 0) EXCEPT !.command = action]
                   ELSE Reply("answered", u, 0)
       /\ UNCHANGED <<users, videos, video_seq, likes, settings, spam_protection, now,
                      utc_offset, inflight, streak_paid, fsm>>

\* the question "clear the whole queue?", with its two buttons
admin_clear_queue(u) ==
    /\ reply' = IF ~is_admin(u) THEN Reply("denied", u, 0) ELSE Reply("confirm", u, 0)
    /\ UNCHANGED <<users, videos, video_seq, likes, settings, spam_protection, now,
                   utc_offset, inflight, streak_paid, fsm>>

(* ------------------------------ start-up ------------------------------ *)

\* faulty variant: the defaults are written over what is there
init_db_settings_replaced(st) == default_settings

\* INSERT OR IGNORE INTO settings (key, value), for the five defaults
init_db_settings(st) ==
    [k \in DOMAIN st \cup DOMAIN default_settings |->
        IF k \in DOMAIN st THEN st[k] ELSE default_settings[k]]

\* the process starts again on the existing file: Database(DB_FILE) runs
\* init_db (CREATE TABLE IF NOT EXISTS changes no table), the conversations
\* and the requests that were being handled are gone, "Starting bot..." is
\* logged
init_db ==
    /\ settings' = init_db_settings(settings)
    /\ fsm' = [u \in UserIds |-> FsmIdle]
    /\ inflight' = NoRequests
    /\ reply' = Reply("starting", 0, 0)
    /\ UNCHANGED <<users, videos, video_seq, likes, spam_protection, now, utc_offset,
                   streak_paid>>

(* ------------------------------- clock -------------------------------- *)

\* the least step after which the default spam window has passed
SpamStep == (DEFAULT_SPAM_TIMEOUT + 1) * SubSec

MaxNow == MaxSteps * SpamStep

Tick(d, bound) ==
    /\ now + d <= bound
    /\ now' = now + d
    /\ reply' = NoReply
    /\ UNCHANGED <<users, videos, video_seq, likes, settings, spam_protection, utc_offset,
                   inflight, streak_paid, fsm>>

(* ------------------------------- Init --------------------------------- *)

\* the state after Database.__init__ on a fresh file
Init ==
    /\ users = << >>
    /\ videos = << >>
    /\ video_seq = 0
    /\ likes = EmptyBag
    /\ settings = default_settings
    /\ spam_protection = << >>
    /\ now = 0
    /\ utc_offset \in UtcOffsets
    /\ inflight = NoRequests
    /\ streak_paid = EmptyBag
    /\ fsm = [u \in UserIds |-> FsmIdle]
    /\ reply = NoReply

\* the senders of Spec
Senders == {1, 2}

\* what an admin types in Spec, by what was asked
AdminTexts(action) ==
    IF action = "delete_video"
    THEN {BadText} \cup {Numeral(n) : n \in 1 .. MaxVideos + 1}
    ELSE {BadText, Numeral(-1), Numeral(0), Numeral(DEFAULT_LIKES_REQUIRED)}

Next ==
    \/ \E u \in Senders : cmd_start(u)
    \/ \E u \in Senders, arg \in SubmitArgs : cmd_submit(u, arg, MaxVideos)
    \/ \E u \in Senders, arg \in LikeArgs : cmd_like(u, arg)
    \/ \E u \in Senders : admin_delete_video(u)
    \/ \E u \in Senders : admin_set_likes_required(u)
    \/ \E u \in Senders : admin_confirm_clear_queue(u)
    \/ \E u \in Senders :
            \E text \in AdminTexts(fsm[u].admin_action) : process_admin_action(u, text)
    \/ Tick(SpamStep, MaxNow)

Spec == Init /\ [][Next]_vars

(* ------------------------- properties of Spec -------------------------- *)

\* C2: with requests handled one at a time, no sequence of like, submission,
\* delete-video and clear-queue operations reaches a state that holds two Like
\* records with the same (user, video) pair.
C2_NoDuplicateLike ==
    \A l \in DOMAIN likes :
        /\ likes[l] = 1
        /\ \A m \in DOMAIN likes :
               (m.user_id = l.user_id /\ m.video_id = l.video_id) => m = l

\* a second like of the same video by the same user has been refused
C2_Witness ==
    /\ reply.kind = "already_liked"
    /\ \E l \in DOMAIN likes : l.user_id = reply.user /\ l.video_id = reply.n

\* C3: in every reachable state no Like record exists whose liking user is the
\* owner of the liked video; the owner's like command is refused.
C3_NoSelfLike ==
    /\ \A l \in DOMAIN likes :
           l.video_id \in DOMAIN videos => videos[l.video_id].user_id # l.user_id
    /\ reply.kind = "own_video" =>
           /\ reply.n \in DOMAIN videos
           /\ videos[reply.n].user_id = reply.user
           /\ ~\E l \in DOMAIN likes : l.user_id = reply.user /\ l.video_id = reply.n

\* the owner of a video that others have liked has tried to like it
C3_Witness ==
    /\ reply.kind = "own_video"
    /\ videos[reply.n].likes_count > 0

\* C4: the gate admits a user exactly when likes_given >= likes_required
\* (the setting as it is now); a /submit that is not admitted is refused with
\* exactly likes_required - likes_given as the number of likes still needed,
\* and a /submit that gets further was admitted.
C4_Step ==
    /\ reply'.kind = "need_likes" =>
        /\ reply'.user \in DOMAIN users
        /\ users[reply'.user].likes_given < settings.likes_required
        /\ reply'.n = settings.likes_required - users[reply'.user].likes_given
        /\ UNCHANGED <<users, videos, video_seq, likes>>
    /\ reply'.kind \in {"submit_usage", "bad_url", "submitted"} =>
        /\ reply'.user \in DOMAIN users
        /\ users[reply'.user].likes_given >= settings.likes_required

C4_Gate ==
    /\ [](\A u \in DOMAIN users :
            can_submit_video(u) <=> users[u].likes_given >= settings.likes_required)
    /\ [][C4_Step]_vars

\* a user with one like given has been told that two more are needed
C4_Witness ==
    /\ reply.kind = "need_likes"
    /\ reply.n = 2
    /\ users[reply.user].likes_given = 1

\* C10: after an admin deletes video v, neither v nor any Like record for v
\* exists, then or later: the queue omits v, has_liked_video(u, v) is false
\* for every user u, and a like command for v is answered not-found.
WasDeleted(v) == v \in 1 .. video_seq /\ v \notin DOMAIN videos

WasDeletedNext(v) == v \in 1 .. video_seq' /\ v \notin DOMAIN videos'

C10_Step ==
    /\ reply'.kind = "deleted" => WasDeletedNext(reply'.n)
    /\ \A v \in 1 .. video_seq : WasDeleted(v) => WasDeletedNext(v)
    /\ reply'.kind \in {"liked", "own_video", "already_liked"} => ~WasDeleted(reply'.n)

C10_DeleteCascades ==
    /\ [](\A v \in 1 .. video_seq :
            WasDeleted(v) =>
                /\ \A i \in 1 .. Len(queue_sorted) : queue_sorted[i] # v
                /\ \A u \in UserIds : ~has_liked_video(u, v))
    /\ [][C10_Step]_vars

\* an admin has deleted a video that a user had liked, and that user's like
\* command for it has been answered not-found
C10_Witness ==
    /\ reply.kind = "not_found"
    /\ WasDeleted(reply.n)
    /\ reply.user \in DOMAIN users
    /\ users[reply.user].likes_given >
           BagCardinality([l \in {x \in DOMAIN likes : x.user_id = reply.user} |-> likes[l]])

\* C12: for every video, likes_count equals the number of Like records whose
\* target is that video, under like, delete-video and clear-queue operations.
C12_LikesCount ==
    \A v \in DOMAIN videos :
        videos[v].likes_count =
            BagCardinality([l \in {x \in DOMAIN likes : x.video_id = v} |-> likes[l]])

\* an admin has deleted a video while another video holds a like
C12_Witness ==
    /\ reply.kind = "deleted"
    /\ \E v \in DOMAIN videos : videos[v].likes_count = 1

\* C13: every rejected like attempt (own video, duplicate, no such video) and
\* every submission rejected for unmet quota leaves every user's likes_given,
\* videos_submitted, points and level, the videos and the Like records
\* unchanged.
C13_Step ==
    reply'.kind \in {"own_video", "already_liked", "not_found", "need_likes"} =>
        UNCHANGED <<users, videos, video_seq, likes>>

C13_RejectionsMutateNothing == [][C13_Step]_vars

\* a user who has given one like has asked to like a video that does not exist
C13_Witness ==
    /\ reply.kind = "not_found"
    /\ reply.user \in DOMAIN users
    /\ ~is_admin(reply.user)
    /\ users[reply.user].likes_given = 1

\* the replies to /start, /submit and /like
CommandReplies ==
    {"welcome", "spam", "need_likes", "error", "submit_usage", "bad_url", "submitted",
     "like_usage", "bad_id", "not_found", "own_video", "already_liked", "liked"}

\* C20: a user record exists after that user's first command of any kind, and
\* no operation ever removes a user record.
C20_Step ==
    /\ reply'.kind \in CommandReplies => reply'.user \in DOMAIN users'
    /\ DOMAIN users \subseteq DOMAIN users'

C20_UserOnFirstContact == [][C20_Step]_vars

\* C28: in every reachable state every Like record references an existing
\* user record and an existing video record, and every video references an
\* existing user record, also when commands come from a user who never sent
\* /start.
C28_References ==
    /\ \A l \in DOMAIN likes :
           /\ l.user_id \in DOMAIN users
           /\ l.video_id \in DOMAIN videos
    /\ \A v \in DOMAIN videos : videos[v].user_id \in DOMAIN users

(* ----------------------- SpecStreak: a filled queue -------------------- *)

\* The state reached from Init when the admin 1 has sent /start and set
\* likes_required to 0, user 2 has sent /start and then SeedVideos links, one
\* every DEFAULT_SPAM_TIMEOUT + 1 seconds, the admin has set likes_required
\* back to its default and has then liked the first SeedLikes videos.

RECURSIVE seed_owner(_)
seed_owner(k) ==
    IF k = 0
    THEN NewUser
    ELSE LET before == (2 :> seed_owner(k - 1))
             after == increment_user_submissions(before, 2)
             lb == level_bonus(leveled_up(before, after, 2), after[2].level)
         IN add_points(after, 2, lb)[2]

RECURSIVE seed_liker(_)
seed_liker(k) ==
    IF k = 0
    THEN [NewUser EXCEPT !.is_admin = 1]
    ELSE LET before == (1 :> seed_liker(k - 1))
             after == increment_user_likes(before, 1)
             lb == level_bonus(leveled_up(before, after, 1), after[1].level)
         IN add_points(add_points(after, 1, lb), 1, streak_bonus(k))[1]

seed_time(i) == (i - 1) * (DEFAULT_SPAM_TIMEOUT + 1)

seed_now == SeedVideos * SpamStep

InitStreak ==
    /\ settings = default_settings
    /\ users = (1 :> seed_liker(SeedLikes)) @@ (2 :> seed_owner(SeedVideos))
    /\ videos = [i \in 1 .. SeedVideos |->
                    [user_id |-> 2, submission_time |-> seed_time(i),
                     likes_count |-> IF i <= SeedLikes THEN 1 ELSE 0]]
    /\ video_seq = SeedVideos
    /\ likes = SetToBag({[user_id |-> 1, video_id |-> i, like_time |-> Sec(seed_now)] :
                            i \in 1 .. SeedLikes})
    /\ spam_protection = (<<2, "start">> :> SpamRow(0))
                         @@ (<<2, "submit">> :> SpamRow(seed_time(SeedVideos) * SubSec))
    /\ now = seed_now
    /\ utc_offset \in UtcOffsets
    /\ inflight = NoRequests
    /\ streak_paid = SetToBag({<<1, streak_bonus(k)>> :
                                k \in {n \in 1 .. SeedLikes : streak_bonus(n) > 0}})
    /\ fsm = [u \in UserIds |-> FsmIdle]
    /\ reply = NoReply

StreakLikeArgs == {Numeral(n) : n \in 1 .. SeedVideos + 1}

\* the clock of SpecStreak advances by a day and a second
DayStep == (DaySeconds + 1) * SubSec

NextStreak ==
    \/ \E arg \in StreakLikeArgs : cmd_like(1, arg)
    \/ cmd_submit(1, UrlText, SeedVideos + 1)
    \/ Tick(DayStep, seed_now + MaxDays * DayStep)

SpecStreak == InitStreak /\ [][NextStreak]_vars

(* ---------------------- properties of SpecStreak ----------------------- *)

\* C1: after any sequence of successful likes and submissions, level-up and
\* streak bonuses included, every user's stored level equals
\* floor(points / level_threshold) + 1 (no behaviour of SpecStreak changes the
\* level_threshold setting, so the setting in force at the last scoring
\* mutation is the current one).
C1_LevelFormula ==
    \A u \in DOMAIN users :
        users[u].level = new_level(users[u].points, settings.level_threshold)

\* the user's Like records of the trailing 24 hours, on the clock that wrote
\* them
likes_in_window(ls, user_id) ==
    BagCardinality(
        [l \in {x \in DOMAIN ls :
                    x.user_id = user_id /\ x.like_time > Sec(now) - DaySeconds}
            |-> ls[l]])

\* C5: on each successful like, with c the number of the user's Like records
\* inside the trailing 24-hour window (this like included), the streak bonus
\* of the call is (c / 5) * 15 when c is a positive multiple of 5 and nothing
\* otherwise.
C5_Step ==
    reply'.kind = "liked" =>
        LET c == likes_in_window(likes', reply'.user)
        IN reply'.streak_bonus =
               IF c > 0 /\ c % 5 = 0 THEN (c \div 5) * 15 ELSE 0

C5_StreakBonus == [][C5_Step]_vars

\* C6: when a like or a submission raises the user's level from L to L + 1,
\* the user receives exactly (L + 1) * 10 bonus points on top of the points of
\* the action (and of the streak bonus the reply reports); a user at 45
\* points and level 1, with level_threshold 50 and points_per_like 5, who
\* likes without a streak bonus ends at 70 points and level 2.
C6_Step ==
    \A u \in DOMAIN users :
        LET L == users[u].level
            base == IF reply'.kind = "liked"
                    THEN settings.points_per_like
                    ELSE settings.points_per_submission
        IN /\ (/\ reply'.kind \in {"liked", "submitted"}
               /\ reply'.user = u
               /\ users'[u].level = L + 1) =>
                  /\ reply'.level_bonus = (L + 1) * 10
                  /\ users'[u].points =
                         users[u].points + base + (L + 1) * 10 + reply'.streak_bonus
           /\ (/\ reply'.kind = "liked"
               /\ reply'.user = u
               /\ reply'.streak_bonus = 0
               /\ users[u].points = 45
               /\ L = 1
               /\ settings.level_threshold = 50
               /\ settings.points_per_like = 5) =>
                  /\ users'[u].points = 70
                  /\ users'[u].level = 2

C6_LevelUpBonus == [][C6_Step]_vars

\* a like has taken its user from level 1 to level 2 and to 70 points
C6_Witness ==
    /\ reply.kind = "liked"
    /\ reply.level = 2
    /\ reply.level_bonus = 20
    /\ users[reply.user].points = 70
    /\ users[reply.user].level = 2
(* ------------------- SpecScenario: a newcomer's path ------------------ *)

\* The state reached from Init when the admin 1 has sent /start, set
\* likes_required to 0, sent ScenarioVideos links within the first second and
\* set likes_required back to its default.  User 2 has not been seen yet.

RECURSIVE scenario_owner(_)
scenario_owner(k) ==
    IF k = 0
    THEN [NewUser EXCEPT !.is_admin = 1]
    ELSE LET before == (1 :> scenario_owner(k - 1))
             after == increment_user_submissions(before, 1)
             lb == level_bonus(leveled_up(before, after, 1), after[1].level)
         IN add_points(after, 1, lb)[1]

InitScenario ==
    /\ settings = default_settings
    /\ users = (1 :> scenario_owner(ScenarioVideos))
    /\ videos = [i \in 1 .. ScenarioVideos |->
                    [user_id |-> 1, submission_time |-> 0, likes_count |-> 0]]
    /\ video_seq = ScenarioVideos
    /\ likes = EmptyBag
    /\ spam_protection = << >>
    /\ now = 0
    /\ utc_offset \in UtcOffsets
    /\ inflight = NoRequests
    /\ streak_paid = EmptyBag
    /\ fsm = [u \in UserIds |-> FsmIdle]
    /\ reply = NoReply

ScenarioLikeArgs == {Numeral(n) : n \in 1 .. ScenarioVideos + 1}

NextScenario ==
    \/ cmd_start(2)
    \/ \E arg \in ScenarioLikeArgs : cmd_like(2, arg)
    \/ \E arg \in SubmitArgs : cmd_submit(2, arg, ScenarioVideos + 1)
    \/ Tick(SpamStep, ScenarioSteps * SpamStep)

SpecScenario == InitScenario /\ [][NextScenario]_vars

(* --------------------- properties of SpecScenario ---------------------- *)

\* C9: each successful like increases the liker's likes_given by exactly 1 and
\* the points by points_per_like (plus the bonuses that the reply reports);
\* each successful submission increases videos_submitted by exactly 1 and the
\* points by points_per_submission (plus the level bonus reported) and adds a
\* video with likes_count = 0 to the queue.  With the default settings, a new
\* user whose Like records are 3 successful likes has likes_given = 3, 15
\* points and an open gate, and after a following submission has
\* videos_submitted = 1 and 25 points.
C9_Step ==
    \A u \in DOMAIN users :
        /\ (reply'.kind = "liked" /\ reply'.user = u) =>
              /\ users'[u].likes_given = users[u].likes_given + 1
              /\ users'[u].videos_submitted = users[u].videos_submitted
              /\ users'[u].points =
                     users[u].points + settings.points_per_like
                        + reply'.level_bonus + reply'.streak_bonus
        /\ (reply'.kind = "submitted" /\ reply'.user = u) =>
              /\ users'[u].videos_submitted = users[u].videos_submitted + 1
              /\ users'[u].likes_given = users[u].likes_given
              /\ users'[u].points =
                     users[u].points + settings.points_per_submission
                        + reply'.level_bonus
              /\ reply'.n \notin DOMAIN videos
              /\ DOMAIN videos' = DOMAIN videos \cup {reply'.n}
              /\ videos'[reply'.n].user_id = u
              /\ videos'[reply'.n].likes_count = 0
              /\ \E i \in 1 .. Len(queue_sorted') : queue_sorted'[i] = reply'.n

\* the Like records of a user
likes_of(user_id) ==
    BagCardinality([l \in {x \in DOMAIN likes : x.user_id = user_id} |-> likes[l]])

C9_Newcomer ==
    \A u \in DOMAIN users \ {1} :
        (users[u].likes_given = 3 /\ likes_of(u) = 3) =>
            /\ users[u].videos_submitted = 0 =>
                  users[u].points = 15 /\ can_submit_video(u)
            /\ users[u].videos_submitted = 1 => users[u].points = 25

C9_Awards == []C9_Newcomer /\ [][C9_Step]_vars

\* the newcomer has given three likes and then submitted a video
C9_Witness ==
    /\ reply.kind = "submitted"
    /\ reply.user = 2
    /\ users[2].likes_given = 3
    /\ users[2].videos_submitted = 1
    /\ users[2].points = 25
    /\ videos[reply.n].likes_count = 0
(* ------------------- SpecQueue: reading the queue --------------------- *)

\* The states reached from Init when the admin 1 has sent /start, set
\* likes_required to 0, sent QueueVideos links during the first QueueTimes
\* seconds, set likes_required back and deleted some of the videos.

InitQueue ==
    /\ settings = default_settings
    /\ users = (1 :> scenario_owner(QueueVideos))
    /\ \E ids \in SUBSET (1 .. QueueVideos), t \in [1 .. QueueVideos -> 0 .. QueueTimes] :
            /\ \A i, j \in 1 .. QueueVideos : i < j => t[i] <= t[j]
            /\ videos = [i \in ids |->
                            [user_id |-> 1, submission_time |-> t[i], likes_count |-> 0]]
    /\ video_seq = QueueVideos
    /\ likes = EmptyBag
    /\ spam_protection = << >>
    /\ now = QueueTimes * SubSec
    /\ utc_offset \in UtcOffsets
    /\ inflight = NoRequests
    /\ streak_paid = EmptyBag
    /\ fsm = [u \in UserIds |-> FsmIdle]
    /\ reply = NoReply

\* db.get_queue(limit=limit): the first page
get_queue_first(limit) ==
    LET page == get_queue(limit, 0)
    IN /\ reply' = [Reply("queue_page", 1, Len(page)) EXCEPT
                       !.rows = page, !.limit = limit, !.offset = 0]
       /\ UNCHANGED <<users, videos, video_seq, likes, settings, spam_protection,
                      now, utc_offset, inflight, streak_paid, fsm>>

\* db.get_queue(limit=limit, offset=offset): the page after the last one
\* read, as long as that one was not empty
get_queue_following ==
    LET offset == reply.offset + reply.limit
        page == get_queue(reply.limit, offset)
    IN /\ reply.kind = "queue_page"
       /\ reply.n > 0
       /\ reply' = [reply EXCEPT !.n = Len(page), !.rows = reply.rows \o page,
                                 !.offset = offset]
       /\ UNCHANGED <<users, videos, video_seq, likes, settings, spam_protection,
                      now, utc_offset, inflight, streak_paid, fsm>>

NextQueue ==
    \/ \E limit \in 1 .. MaxLimit : get_queue_first(limit)
    \/ get_queue_following

SpecQueue == InitQueue /\ [][NextQueue]_vars

(* ----------------------- properties of SpecQueue ----------------------- *)

\* C7: get_queue returns videos in non-decreasing submission-time order, and
\* for a queue that is not modified between the requests the pages at offsets
\* 0, limit, 2 * limit, ... concatenated hold every queued video exactly once:
\* no video twice, none skipped (every video not yet listed is no older than
\* the listed ones, every page before the end is full, and once a page comes
\* back short every video has been listed).
C7_QueuePages ==
    reply.kind = "queue_page" =>
        LET rows == reply.rows
            listed == {rows[i] : i \in 1 .. Len(rows)}
            total == Cardinality(DOMAIN videos)
            read == reply.offset + reply.limit
        IN /\ listed \subseteq DOMAIN videos
           /\ \A i, j \in 1 .. Len(rows) :
                  i < j => /\ rows[i] # rows[j]
                           /\ videos[rows[i]].submission_time
                                  <= videos[rows[j]].submission_time
           /\ \A v \in DOMAIN videos \ listed : \A w \in listed :
                  videos[w].submission_time <= videos[v].submission_time
           /\ Len(rows) = IF read < total THEN read ELSE total
           /\ reply.n < reply.limit => listed = DOMAIN videos

\* the queue has been read to its end in more than two pages, and two of its
\* videos were submitted in the same second
C7_Witness ==
    /\ reply.kind = "queue_page"
    /\ reply.offset >= 2 * reply.limit
    /\ reply.limit > 1
    /\ reply.n > 0
    /\ reply.n < reply.limit
    /\ \E v, w \in DOMAIN videos :
           v # w /\ videos[v].submission_time = videos[w].submission_time

(* ------------------- SpecSpam: the spam guard in time ------------------ *)

\* The state reached from Init when the admin 1 has sent /start and set
\* spam_timeout to SpamTimeout, all within the first third of a second.

InitSpam ==
    /\ settings = [default_settings EXCEPT !.spam_timeout = SpamTimeout]
    /\ users = (1 :> [NewUser EXCEPT !.is_admin = 1])
    /\ videos = << >>
    /\ video_seq = 0
    /\ likes = EmptyBag
    /\ spam_protection = << >>
    /\ now = 0
    /\ utc_offset \in UtcOffsets
    /\ inflight = NoRequests
    /\ streak_paid = EmptyBag
    /\ fsm = [u \in UserIds |-> FsmIdle]
    /\ reply = NoReply

SpamHorizon == SpamWindows * (SpamTimeout + 1) * SubSec

\* what the admin types when asked for a user id
SpamAdminTexts == {BadText, Numeral(3)}

NextSpam ==
    \/ \E u \in {2, 3} : cmd_start(u)
    \/ cmd_like(2, NoText)
    \/ admin_add_admin(1)
    \/ \E text \in SpamAdminTexts : process_admin_user_id(1, text)
    \/ Tick(1, SpamHorizon)

SpecSpam == InitSpam /\ [][NextSpam]_vars

(* ----------------------- properties of SpecSpam ------------------------ *)

\* the time since the recorded invocation of the command, in ticks (`at` is
\* the clock value at which the row was written)
since(user_id, command) == now - spam_protection[<<user_id, command>>].at

\* C8: for a non-admin user, an invocation of a command less than
\* spam_timeout seconds after an admitted one of the same command is not
\* admitted (the guard records nothing), an invocation is refused only
\* within spam_timeout seconds of the admitted one, and a user in ADMIN_IDS or
\* flagged is_admin is never refused.
C8_RejectStep ==
    \A u \in UserIds, c \in Commands :
        (/\ reply'.user = u
         /\ ~spam_bypass(u)
         /\ <<u, c>> \in DOMAIN spam_protection
         /\ since(u, c) < settings.spam_timeout * SubSec) =>
            spam_protection'[<<u, c>>] = spam_protection[<<u, c>>]

C8_RefuseStep ==
    \A u \in UserIds, c \in Commands :
        (reply'.kind = "spam" /\ reply'.user = u /\ reply'.command = c) =>
            /\ <<u, c>> \in DOMAIN spam_protection
            /\ since(u, c) <= settings.spam_timeout * SubSec
            /\ u \notin ADMIN_IDS
            /\ ~is_admin(u)

C8_Step == C8_RejectStep /\ C8_RefuseStep

C8_SpamGuard == [][C8_Step]_vars
(* --------------------- SpecAdmin: the admin's desk --------------------- *)

\* The state reached from Init when the admin 1 and user 2 have sent /start.

InitAdmin ==
    /\ settings = default_settings
    /\ users = (1 :> [NewUser EXCEPT !.is_admin = 1]) @@ (2 :> NewUser)
    /\ videos = << >>
    /\ video_seq = 0
    /\ likes = EmptyBag
    /\ spam_protection = << >>
    /\ now = 0
    /\ utc_offset \in UtcOffsets
    /\ inflight = NoRequests
    /\ streak_paid = EmptyBag
    /\ fsm = [u \in UserIds |-> FsmIdle]
    /\ reply = NoReply

\* what the admin types when asked for a user id, for points, for a level
DeskUserTexts == {BadText, Numeral(2), Numeral(3)}
DeskPointTexts ==
    {BadText, Numeral(-DEFAULT_LEVEL_THRESHOLD), Numeral(DEFAULT_LEVEL_THRESHOLD)}
DeskLevelTexts == {BadText, Numeral(0), Numeral(1), Numeral(MaxLevel)}

NextAdmin ==
    \/ admin_add_points(1)
    \/ admin_set_level(1)
    \/ admin_set_level_threshold(1)
    \/ \E text \in DeskUserTexts : process_admin_user_id(1, text)
    \/ \E text \in DeskPointTexts :
            process_admin_points(1, text, MaxPointSteps * DEFAULT_LEVEL_THRESHOLD)
    \/ \E text \in DeskLevelTexts : process_admin_level(1, text)
    \/ \E text \in AdminTexts(fsm[1].admin_action) : process_admin_action(1, text)
    \/ init_db

SpecAdmin == InitAdmin /\ [][NextAdmin]_vars

(* ----------------------- properties of SpecAdmin ----------------------- *)

\* C11: a user's level starts at 1 and never decreases, whatever the
\* operation: likes, submissions, changes of level_threshold, admin
\* add-points and admin set-level.
C11_Step ==
    /\ \A u \in DOMAIN users :
           u \in DOMAIN users' /\ users'[u].level >= users[u].level
    /\ \A u \in DOMAIN users' \ DOMAIN users : users'[u].level = 1

C11_LevelMonotone == [][C11_Step]_vars

\* C14: running the database initialization again on an existing store leaves
\* every setting that is present at its value: the defaults are written only
\* for absent keys, so values changed by an admin survive a restart.
C14_Step ==
    reply'.kind = "starting" =>
        \A k \in DOMAIN settings :
            k \in DOMAIN settings' /\ settings'[k] = settings[k]

C14_InitKeepsSettings == [][C14_Step]_vars

\* the process has started again and level_threshold is still what an admin
\* made it
C14_Witness ==
    /\ reply.kind = "starting"
    /\ settings.level_threshold # DEFAULT_LEVEL_THRESHOLD
(* ------------------- SpecZero: the spam guard switched off ------------- *)

\* what the admin types when asked for the spam timeout
ZeroTexts == {Numeral(0), Numeral(SpamTimeout)}

\* From InitSpam: the admin changes spam_timeout between 0 and SpamTimeout
\* while user 2 sends commands.
NextZero ==
    \/ cmd_start(2)
    \/ cmd_like(2, NoText)
    \/ admin_set_spam_timeout(1)
    \/ \E text \in ZeroTexts : process_admin_action(1, text)
    \/ Tick(1, SpamHorizon)

SpecZero == InitSpam /\ [][NextZero]_vars

\* C15: for a non-admin user a command with no spam record for the (user,
\* command) pair is admitted whatever spam_timeout is, and with
\* spam_timeout = 0 every invocation is admitted, also one made at the
\* timestamp of the recorded invocation.
C15_Step ==
    reply'.kind = "spam" =>
        /\ <<reply'.user, reply'.command>> \in DOMAIN spam_protection
        /\ settings.spam_timeout # 0

C15_FirstAndZero == [][C15_Step]_vars

(* ------------------ SpecBonus: a low level threshold ------------------- *)

\* The state reached as InitScenario is, the admin having set
\* level_threshold to BonusThreshold before sending the links.

InitBonus ==
    /\ settings = [default_settings EXCEPT !.level_threshold = BonusThreshold]
    /\ users = (1 :> scenario_owner(ScenarioVideos))
    /\ videos = [i \in 1 .. ScenarioVideos |->
                    [user_id |-> 1, submission_time |-> 0, likes_count |-> 0]]
    /\ video_seq = ScenarioVideos
    /\ likes = EmptyBag
    /\ spam_protection = << >>
    /\ now = 0
    /\ utc_offset \in UtcOffsets
    /\ inflight = NoRequests
    /\ streak_paid = EmptyBag
    /\ fsm = [u \in UserIds |-> FsmIdle]
    /\ reply = NoReply

SpecBonus == InitBonus /\ [][NextScenario]_vars

\* C16: within one successful like or submission the level-up bonus is
\* awarded at most once, the level stored after the operation is the level
\* computed before the bonus was added, and the bonus causes no further level
\* change and no further bonus in that operation.
C16_Step ==
    \A u \in DOMAIN users :
        (reply'.kind \in {"liked", "submitted"} /\ reply'.user = u) =>
            LET base == IF reply'.kind = "liked"
                        THEN settings.points_per_like
                        ELSE settings.points_per_submission
                before == users[u].points + base
                computed == (before \div settings.level_threshold) + 1
                decided == IF computed > users[u].level THEN computed ELSE users[u].level
            IN /\ users'[u].level = decided
               /\ reply'.level_bonus \in {0, decided * 10}
               /\ users'[u].points = before + reply'.level_bonus + reply'.streak_bonus

C16_BonusOnce == [][C16_Step]_vars

\* a like has raised the level, and its bonus has carried the points past a
\* further threshold without a further level
C16_Witness ==
    /\ reply.kind = "liked"
    /\ reply.level_bonus > 0
    /\ users[reply.user].level = reply.level
    /\ (users[reply.user].points \div settings.level_threshold) + 1 > reply.level

(* ----------------- SpecChurn: likes and deleted videos ----------------- *)

\* what the admin types when asked for the video to delete
ChurnTexts == {Numeral(n) : n \in SeedLikes + 1 .. SeedLikes + ChurnDeletes}

\* From InitStreak: the liker goes on liking while an admin deletes videos
\* and clears the queue; the clock stands still, so that no like ages out of
\* the 24-hour window.
NextChurn ==
    \/ \E arg \in StreakLikeArgs : cmd_like(1, arg)
    \/ admin_delete_video(1)
    \/ \E text \in ChurnTexts : process_admin_action(1, text)
    \/ admin_confirm_clear_queue(1)

SpecChurn == InitStreak /\ [][NextChurn]_vars

\* C19: as long as none of the user's likes has aged out of the 24-hour
\* window, the streak bonus for reaching the count 5k is paid at most once
\* for a user and a k, whatever is interleaved: further likes, an admin's
\* video deletion, the clearing of the queue.
C19_StreakPaidOnce ==
    \A e \in DOMAIN streak_paid : streak_paid[e] <= 1

(* --------------- SpecRace: two processes on one database --------------- *)

\* Two bot processes serve the same database file.  A process handles one
\* request at a time, but the statements of its handler interleave with the
\* statements of the other process: every database call opens its own
\* connection and commits on its own.  inflight[p] is the request of process
\* p: pc (the statement it has reached; "done" once it has replied), kind,
\* user, arg, outcome (the kind of its reply) and, as history, seq: the
\* AUTOINCREMENT counter of videos as it was when the request passed its
\* checks.

Request(kind, user, arg) ==
    [pc |-> "spam", kind |-> kind, user |-> user, arg |-> arg, seq |-> 0,
     outcome |-> "none"]

\* the request of process p has been answered
finish(p, r) ==
    /\ reply' = r
    /\ inflight' = [inflight EXCEPT ![p].pc = "done", ![p].outcome = r.kind]

\* the request of process p goes on to the statement pc
goto(p, pc) ==
    /\ reply' = NoReply
    /\ inflight' = [inflight EXCEPT ![p].pc = pc, ![p].seq = video_seq]

\* the update arrives at process p
race_begin(p, kind, u, arg) ==
    /\ inflight[p].pc \in {"idle", "done"}
    /\ InNoState(u)
    /\ inflight' = [inflight EXCEPT ![p] = Request(kind, u, arg)]
    /\ reply' = NoReply
    /\ UNCHANGED <<users, videos, video_seq, likes, settings, spam_protection, now,
                   utc_offset, streak_paid, fsm>>

\* check_spam up to db.can_execute_command
race_spam(p) ==
    LET u == inflight[p].user
        command == inflight[p].kind
    IN /\ inflight[p].pc = "spam"
       /\ IF spam_bypass(u)
          THEN goto(p, "check")
          ELSE IF ~can_execute_command(u, command)
          THEN finish(p, SpamReply(u, command))
          ELSE goto(p, "record")
       /\ UNCHANGED <<users, videos, video_seq, likes, settings, spam_protection, now,
                      utc_offset, streak_paid, fsm>>

\* check_spam's db.record_command
race_record(p) ==
    /\ inflight[p].pc = "record"
    /\ spam_protection' = record_command(spam_protection, inflight[p].user, inflight[p].kind)
    /\ goto(p, "check")
    /\ UNCHANGED <<users, videos, video_seq, likes, settings, now, utc_offset,
                   streak_paid, fsm>>

\* cmd_like down to db.has_liked_video
like_check(p) ==
    LET u == inflight[p].user
        arg == inflight[p].arg
        video_id == arg.n
    IN /\ inflight[p].pc = "check"
       /\ inflight[p].kind = "like"
       /\ IF arg = NoText
          THEN finish(p, Reply("like_usage", u, 0))
          ELSE IF ~is_int(arg)
          THEN finish(p, Reply("bad_id", u, 0))
          ELSE IF ~get_video(video_id)
          THEN finish(p, Reply("not_found", u, video_id))
          ELSE IF is_own_video(u, video_id)
          THEN finish(p, Reply("own_video", u, video_id))
          ELSE IF has_liked_video(u, video_id)
          THEN finish(p, Reply("already_liked", u, video_id))
          ELSE goto(p, "select")
       /\ UNCHANGED <<users, videos, video_seq, likes, settings, spam_protection, now,
                      utc_offset, streak_paid, fsm>>

\* add_like's SELECT: cmd_like does not look at the result of add_like, so
\* that the request goes on to the scoring when the row is found
like_select(p) ==
    /\ inflight[p].pc = "select"
    /\ IF add_like(inflight[p].user, inflight[p].arg.n)
       THEN goto(p, "insert")
       ELSE goto(p, "score")
    /\ UNCHANGED <<users, videos, video_seq, likes, settings, spam_protection, now,
                   utc_offset, streak_paid, fsm>>

\* faulty variant: the table refuses a second row for the pair
add_like_insert_unique(ls, user_id, video_id) ==
    IF has_liked_video(user_id, video_id)
    THEN ls
    ELSE ls (+) SetToBag({LikeRow(user_id, video_id)})

\* INSERT INTO likes (user_id, video_id, like_time): the table has no
\* UNIQUE constraint on the pair
add_like_insert(ls, user_id, video_id) ==
    ls (+) SetToBag({LikeRow(user_id, video_id)})

\* add_like's INSERT, UPDATE and commit
like_insert(p) ==
    LET u == inflight[p].user
        video_id == inflight[p].arg.n
    IN /\ inflight[p].pc = "insert"
       /\ likes' = add_like_insert(likes, u, video_id)
       /\ videos' = IF video_id \in DOMAIN videos
                    THEN [videos EXCEPT ![video_id].likes_count = @ + 1]
                    ELSE videos
       /\ goto(p, "score")
       /\ UNCHANGED <<users, video_seq, settings, spam_protection, now, utc_offset,
                      streak_paid, fsm>>

\* cmd_like from db.increment_user_likes to the reply
like_score(p) ==
    LET u == inflight[p].user
        video_id == inflight[p].arg.n
    IN /\ inflight[p].pc = "score"
       /\ IF u \notin DOMAIN users
          THEN /\ users' = users
               /\ finish(p, Reply("error", u, video_id))
          ELSE LET us1 == increment_user_likes(users, u)
                   up == leveled_up(users, us1, u)
                   lb == level_bonus(up, us1[u].level)
                   sb == streak_bonus(streak_count(likes, u))
               IN /\ users' = add_points(add_points(us1, u, lb), u, sb)
                  /\ finish(p, [Reply("liked", u, video_id) EXCEPT
                                   !.level = IF up THEN us1[u].level ELSE 0,
                                   !.level_bonus = lb,
                                   !.streak_bonus = sb])
       /\ streak_paid' = streak_announced(streak_paid, reply')
       /\ UNCHANGED <<videos, video_seq, likes, settings, spam_protection, now,
                      utc_offset, fsm>>

\* cmd_submit down to is_valid_tiktok_url
submit_check(p) ==
    LET u == inflight[p].user
        arg == inflight[p].arg
    IN /\ inflight[p].pc = "check"
       /\ inflight[p].kind = "submit"
       /\ IF ~can_submit_video(u)
          THEN finish(p, IF u \in DOMAIN users
                         THEN Reply("need_likes", u, likes_needed(u))
                         ELSE Reply("error", u, 0))
          ELSE IF arg = NoText
          THEN finish(p, Reply("submit_usage", u, 0))
          ELSE IF ~is_valid_tiktok_url(arg)
          THEN finish(p, Reply("bad_url", u, 0))
          ELSE goto(p, "commit")
       /\ UNCHANGED <<users, videos, video_seq, likes, settings, spam_protection, now,
                      utc_offset, streak_paid, fsm>>

\* cmd_submit from db.add_video to the reply
submit_commit(p, cap) ==
    LET u == inflight[p].user
        us1 == increment_user_submissions(users, u)
        up == leveled_up(users, us1, u)
        lb == level_bonus(up, us1[u].level)
    IN /\ inflight[p].pc = "commit"
       /\ video_seq < cap
       /\ videos' = add_video(videos, u)
       /\ video_seq' = video_seq + 1
       /\ users' = add_points(us1, u, lb)
       /\ finish(p, [Reply("submitted", u, video_seq + 1) EXCEPT
                        !.level = IF up THEN us1[u].level ELSE 0,
                        !.level_bonus = lb])
       /\ UNCHANGED <<likes, settings, spam_protection, now, utc_offset, streak_paid,
                      fsm>>

\* The state after the admin (user 1) has set likes_required to 0, sent
\* /start and a link, and set likes_required to 1, and user 2 has sent /start.
RaceUsers == (1 :> scenario_owner(1)) @@ (2 :> NewUser)

InitRace ==
    /\ settings = [default_settings EXCEPT !.likes_required = 1]
    /\ users = RaceUsers
    /\ videos = (1 :> [user_id |-> 1, submission_time |-> 0, likes_count |-> 0])
    /\ video_seq = 1
    /\ likes = EmptyBag
    /\ spam_protection = << >>
    /\ now = 0
    /\ utc_offset \in UtcOffsets
    /\ inflight = NoRequests
    /\ streak_paid = EmptyBag
    /\ fsm = [u \in UserIds |-> FsmIdle]
    /\ reply = NoReply

RaceLikeArgs == {BadText} \cup {Numeral(n) : n \in 1 .. 2}
RaceSubmitArgs == {BadText, UrlText}

NextRace ==
    \/ \E p \in Procs, u \in Senders, arg \in RaceLikeArgs : race_begin(p, "like", u, arg)
    \/ \E p \in Procs, u \in Senders, arg \in RaceSubmitArgs : race_begin(p, "submit", u, arg)
    \/ \E p \in Procs : race_spam(p)
    \/ \E p \in Procs : race_record(p)
    \/ \E p \in Procs : like_check(p)
    \/ \E p \in Procs : like_select(p)
    \/ \E p \in Procs : like_insert(p)
    \/ \E p \in Procs : like_score(p)
    \/ \E p \in Procs : submit_check(p)
    \/ \E p \in Procs : submit_commit(p, RaceVideos)

SpecRace == InitRace /\ [][NextRace]_vars

\* the Like records of the pair, of the video, of the user
pair_likes(user_id, video_id) ==
    BagCardinality(
        [l \in {x \in DOMAIN likes : x.user_id = user_id /\ x.video_id = video_id}
            |-> likes[l]])

video_likes(video_id) ==
    BagCardinality([l \in {x \in DOMAIN likes : x.video_id = video_id} |-> likes[l]])

user_likes(user_id) ==
    BagCardinality([l \in {x \in DOMAIN likes : x.user_id = user_id} |-> likes[l]])

\* the like requests of the user that have still to be scored
to_score(user_id) ==
    Cardinality({p \in Procs : /\ inflight[p].pc = "score"
                               /\ inflight[p].user = user_id})

\* C17: when two like requests for the same (user, video) pair are handled
\* by interleaved processes, both can pass the duplicate check before either
\* inserts; every Like record, the second one of a pair included, is counted
\* in likes_count of the video and, once its request is scored, in
\* likes_given and in the points of the user, so that the two records of the
\* pair come with likes_count, likes_given and points incremented twice.
C17_DoubleLike ==
    /\ \A v \in DOMAIN videos : videos[v].likes_count = video_likes(v)
    /\ \A u \in DOMAIN users :
           /\ users[u].likes_given + to_score(u) >= RaceUsers[u].likes_given + user_likes(u)
           /\ users[u].points >=
                  RaceUsers[u].points
                  + settings.points_per_like * (users[u].likes_given - RaceUsers[u].likes_given)
                  + settings.points_per_submission
                        * (users[u].videos_submitted - RaceUsers[u].videos_submitted)

\* both processes have answered a like of the same pair with success, and
\* the pair has two Like records, counted twice in each counter
C17_Witness ==
    \E u \in DOMAIN users, v \in DOMAIN videos :
        /\ \A p \in Procs :
               /\ inflight[p].pc = "done"
               /\ inflight[p].kind = "like"
               /\ inflight[p].outcome = "liked"
               /\ inflight[p].user = u
               /\ inflight[p].arg = Numeral(v)
        /\ pair_likes(u, v) = 2
        /\ videos[v].likes_count = 2
        /\ users[u].likes_given = RaceUsers[u].likes_given + 2
        /\ users[u].points = RaceUsers[u].points + 2 * settings.points_per_like

\* process p commits a submission
commits(p) == inflight[p].pc = "commit" /\ inflight'[p].pc = "done"

\* process q has had a submission of the same user accepted which passed the
\* reciprocity check at the counter value at which that of process p passed
raced_with(p, q) ==
    /\ q # p
    /\ inflight[q].pc = "done"
    /\ inflight[q].kind = "submit"
    /\ inflight[q].outcome = "submitted"
    /\ inflight[q].user = inflight[p].user
    /\ inflight[q].seq = inflight[p].seq

\* C18 as the specification states it: when two submission requests of the
\* same user are handled by interleaved processes and both pass the
\* reciprocity check before either commits, the one that commits second
\* would have been rejected had it been handled after the other: the
\* reciprocity check refuses the user in the state in which it commits.
C18_BypassStep ==
    \A p \in Procs, q \in Procs :
        (commits(p) /\ raced_with(p, q)) =>
            users[inflight[p].user].likes_given < settings.likes_required

C18_GateBypassed == [][C18_BypassStep]_vars

\* C18, amended: two submission requests of the same user handled by
\* interleaved processes can both pass the reciprocity check before either
\* commits, and both are accepted; each of them commits in a state in which
\* the reciprocity check admits the user, so that it would have passed the
\* check as well had the two been handled one after the other.
C18_Step ==
    \A p \in Procs :
        commits(p) =>
            /\ inflight[p].user \in DOMAIN users
            /\ users[inflight[p].user].likes_given >= settings.likes_required

C18_GateHolds == [][C18_Step]_vars

\* two submissions of one user that passed the check side by side have both
\* been accepted
C18_Witness ==
    \E p \in Procs, q \in Procs :
        /\ inflight[p].pc = "done"
        /\ inflight[p].kind = "submit"
        /\ inflight[p].outcome = "submitted"
        /\ raced_with(p, q)

(* ---------------- SpecTuning: scoring settings changed ----------------- *)

\* what the admin types when asked for a scoring setting
TuningTexts == {Numeral(TuningValue)}

\* the settings that enter the scoring
ScoringKeys == {"points_per_like", "points_per_submission", "level_threshold"}

\* From InitRace: the two users like and submit while the admin changes the
\* scoring settings; the clock stands still, so that user 2, who is no admin,
\* gets one like and one submission past the spam guard.
NextTuning ==
    \/ \E u \in Senders, arg \in RaceLikeArgs : cmd_like(u, arg)
    \/ \E u \in Senders : cmd_submit(u, UrlText, RaceVideos)
    \/ admin_set_points_per_like(1)
    \/ admin_set_points_per_submission(1)
    \/ admin_set_level_threshold(1)
    \/ \E text \in TuningTexts : process_admin_action(1, text)

SpecTuning == InitRace /\ [][NextTuning]_vars

\* C21: a change of level_threshold, points_per_like or
\* points_per_submission leaves the stored points and level of every user as
\* they are; the values in force are used by the likes and the submissions
\* made after the change, and by those only.
C21_Step ==
    /\ (\E k \in ScoringKeys : settings'[k] # settings[k]) => users' = users
    /\ \A u \in DOMAIN users :
           (reply'.kind \in {"liked", "submitted"} /\ reply'.user = u) =>
               LET base == IF reply'.kind = "liked"
                           THEN settings.points_per_like
                           ELSE settings.points_per_submission
                   before == users[u].points + base
                   computed == (before \div settings.level_threshold) + 1
               IN /\ users'[u].points
                         = before + reply'.level_bonus + reply'.streak_bonus
                  /\ users'[u].level
                         = IF computed > users[u].level THEN computed ELSE users[u].level

C21_NotRetroactive == [][C21_Step]_vars

\* the admin has just changed a scoring setting, and a user keeps a level
\* that the new level_threshold would not give to the points the user has
C21_Witness ==
    /\ reply.kind = "setting_set"
    /\ \E u \in DOMAIN users :
           /\ users[u].points > 0
           /\ users[u].level # (users[u].points \div settings.level_threshold) + 1

(* ------------------- SpecPanel: the admin's requests ------------------- *)

\* what is typed in SpecPanel when the bot has asked for a video, a setting,
\* an announcement; for a user id; for points; for a level
\* (one setting is changed, the others are refused a negative value; the user
\* who is to become an admin is not found, so that user 1 stays the only one)
PanelTexts(action) ==
    IF action \in {"delete_video", "set_likes_required"}
    THEN {BadText, Numeral(1)}
    ELSE IF action = "announcement"
    THEN {NoText, BadText}
    ELSE {BadText, Numeral(-1)}
PanelUserTexts(action) ==
    IF action = "add_admin" THEN {BadText, Numeral(3)} ELSE {BadText, Numeral(2)}
PanelPointTexts == {BadText, Numeral(DEFAULT_LEVEL_THRESHOLD)}
PanelLevelTexts == {BadText, Numeral(0), Numeral(MaxLevel)}

\* the payloads of the buttons of the panel's sections
PanelData == {Data(<<"admin", section>>) : section \in PanelSections}

\* a request of user u to an action that is for admins only
AdminOnly(u) ==
    \/ cmd_admin(u)
    \/ \E data \in PanelData : process_admin_callback(u, data)
    \/ admin_delete_video(u)
    \/ admin_clear_queue(u)
    \/ admin_confirm_clear_queue(u)
    \/ admin_add_admin(u)
    \/ admin_reset_likes(u)
    \/ admin_add_points(u)
    \/ admin_set_level(u)
    \/ admin_block_user(u)
    \/ admin_announcement(u)
    \/ admin_set_likes_required(u)
    \/ admin_set_spam_timeout(u)
    \/ admin_set_points_per_like(u)
    \/ admin_set_points_per_submission(u)
    \/ admin_set_level_threshold(u)
    \/ \E text \in PanelTexts(fsm[u].admin_action) : process_admin_action(u, text)
    \/ \E text \in PanelUserTexts(fsm[u].admin_action) : process_admin_user_id(u, text)
    \/ \E text \in PanelPointTexts :
            process_admin_points(u, text, MaxPointSteps * DEFAULT_LEVEL_THRESHOLD)
    \/ \E text \in PanelLevelTexts : process_admin_level(u, text)

\* From InitRace, after user 2 has liked the admin's video: the three users
\* (user 3 has never sent /start) send the requests that are for admins.
InitPanel ==
    /\ settings = [default_settings EXCEPT !.likes_required = 1]
    /\ users = [RaceUsers EXCEPT ![2] = [@ EXCEPT !.likes_given = 1,
                                                  !.points = DEFAULT_POINTS_PER_LIKE]]
    /\ videos = (1 :> [user_id |-> 1, submission_time |-> 0, likes_count |-> 1])
    /\ video_seq = 1
    /\ likes = SetToBag({[user_id |-> 2, video_id |-> 1, like_time |-> 0]})
    /\ spam_protection = (<<2, "start">> :> SpamRow(0)) @@ (<<2, "like">> :> SpamRow(0))
    /\ now = 0
    /\ utc_offset \in UtcOffsets
    /\ inflight = NoRequests
    /\ streak_paid = EmptyBag
    /\ fsm = [u \in UserIds |-> FsmIdle]
    /\ reply = NoReply

NextPanel == \E u \in UserIds : AdminOnly(u)

SpecPanel == InitPanel /\ [][NextPanel]_vars

\* C22: a request to an admin-only action by a user whose is_admin flag is
\* not set changes no user, video, like, setting or spam-protection record.
C22_Step ==
    \A u \in UserIds :
        (~is_admin(u) /\ AdminOnly(u)) =>
            UNCHANGED <<users, videos, likes, settings, spam_protection>>

C22_NonAdminChangesNothing == [][C22_Step]_vars

\* user 2, who has a record and is no admin, has been denied while the
\* queue holds a video and a like
C22_Witness ==
    /\ reply.kind = "denied"
    /\ reply.user = 2
    /\ ~is_admin(2)
    /\ videos # << >>
    /\ likes # EmptyBag

\* C24: an admin announcement attempts the delivery to every user record
\* exactly once, one after the other; a delivery that fails does not keep the
\* later ones from being attempted, none is attempted again, and the count
\* that is reported is the number of deliveries that succeeded.
C24_Step ==
    reply'.kind = "announced" =>
        LET out == reply'.sent
        IN /\ Len(out) = Cardinality(DOMAIN users)
           /\ {out[i].to : i \in 1 .. Len(out)} = DOMAIN users
           /\ \A i, j \in 1 .. Len(out) : out[i].to = out[j].to => i = j
           /\ reply'.n = Cardinality({i \in 1 .. Len(out) : out[i].ok})

C24_Announcement == [][C24_Step]_vars

\* an announcement whose first delivery failed and whose second one succeeded
C24_Witness ==
    /\ reply.kind = "announced"
    /\ \E i, j \in 1 .. Len(reply.sent) :
           /\ i < j
           /\ ~reply.sent[i].ok
           /\ reply.sent[j].ok
    /\ reply.n < Len(reply.sent)

(* ------------------ SpecSettings: the five settings -------------------- *)

\* what the admin types when asked for the value of a setting
SettingTexts == {BadText, Numeral(-1), Numeral(0), Numeral(1)}

\* From InitAdmin: the admin changes the settings, and the bot is started
\* again.
NextSettings ==
    \/ admin_set_likes_required(1)
    \/ admin_set_spam_timeout(1)
    \/ admin_set_points_per_like(1)
    \/ admin_set_points_per_submission(1)
    \/ admin_set_level_threshold(1)
    \/ \E text \in SettingTexts : process_admin_action(1, text)
    \/ init_db

SpecSettings == InitAdmin /\ [][NextSettings]_vars

\* the least value that process_admin_action takes for the setting
least(key) == IF key = "level_threshold" THEN 1 ELSE 0

\* the setting that the admin has been asked for
asked(u) ==
    IF \E key \in SettingKeys : fsm[u].admin_action = "set_" \o key
    THEN CHOOSE key \in SettingKeys : fsm[u].admin_action = "set_" \o key
    ELSE "none"

\* C23: after any sequence of admin setting updates from the seeded
\* defaults, level_threshold is >= 1 and likes_required, points_per_like,
\* points_per_submission and spam_timeout are >= 0; an update with a value
\* outside these ranges, or with a text that is no number, leaves the setting
\* unchanged.
C23_Step ==
    /\ \A key \in SettingKeys : settings'[key] >= least(key)
    /\ \A text \in SettingTexts :
           (/\ process_admin_action(1, text)
            /\ asked(1) \in SettingKeys
            /\ (~is_int(text) \/ text.n < least(asked(1))))
               => UNCHANGED settings

C23_SettingsInRange == [][C23_Step]_vars

\* a negative value has been refused for a setting, after another value had
\* been stored
C23_Witness ==
    /\ reply.kind = "refused"
    /\ reply.n < 0
    /\ settings # default_settings
    /\ settings.level_threshold = 1
    /\ settings.spam_timeout = 0

(* --------------------- SpecQuota: the open gate ------------------------ *)

\* what the admin types when asked for likes_required, and for a user id
QuotaTexts == {Numeral(0), Numeral(DEFAULT_LIKES_REQUIRED - 1)}
QuotaUserTexts == {Numeral(2)}

\* From InitRace: the users like and submit, the admin changes
\* likes_required and resets the likes of user 2.
NextQuota ==
    \/ \E u \in Senders, arg \in RaceLikeArgs : cmd_like(u, arg)
    \/ \E u \in Senders : cmd_submit(u, UrlText, RaceVideos)
    \/ admin_set_likes_required(1)
    \/ admin_reset_likes(1)
    \/ \E text \in QuotaTexts : process_admin_action(1, text)
    \/ \E text \in QuotaUserTexts : process_admin_user_id(1, text)
    \/ Tick(SpamStep, MaxNow)

SpecQuota == InitRace /\ [][NextQuota]_vars

\* C25: a successful submission leaves likes_given of the submitter
\* unchanged: the quota is not consumed, and a user for whom the gate is open
\* finds it open for every further submission, without another like, until
\* likes_required is raised or an admin resets the likes of the user.
C25_Step ==
    \A u \in DOMAIN users :
        /\ (reply'.kind = "submitted" /\ reply'.user = u) =>
               /\ users'[u].likes_given = users[u].likes_given
               /\ users'[u].likes_given >= settings'.likes_required
        /\ (/\ users[u].likes_given >= settings.likes_required
            /\ settings'.likes_required <= settings.likes_required
            /\ reply'.kind # "likes_reset")
               => /\ u \in DOMAIN users'
                  /\ users'[u].likes_given >= settings'.likes_required

C25_QuotaNotConsumed == [][C25_Step]_vars

\* a user has had a second video accepted on the likes that opened the gate
\* for the first one
C25_Witness ==
    /\ reply.kind = "submitted"
    /\ users[reply.user].videos_submitted >= 2
    /\ users[reply.user].likes_given = settings.likes_required
    /\ settings.likes_required > 0

(* --------------------- SpecPager: leafing the queue -------------------- *)

\* The states reached when the admin 1 has set likes_required to 0 and sent
\* up to PagerVideos links; user 2 has not sent /start.
InitPager ==
    /\ settings = default_settings
    /\ \E n \in 0 .. PagerVideos :
           /\ users = (1 :> scenario_owner(n))
           /\ videos = [i \in 1 .. n |->
                           [user_id |-> 1, submission_time |-> seed_time(i),
                            likes_count |-> 0]]
           /\ video_seq = n
    /\ likes = EmptyBag
    /\ spam_protection = << >>
    /\ now = PagerVideos * SpamStep
    /\ utc_offset \in UtcOffsets
    /\ inflight = NoRequests
    /\ streak_paid = EmptyBag
    /\ fsm = [u \in UserIds |-> FsmIdle]
    /\ reply = NoReply

NextPager ==
    \/ \E u \in Senders : cmd_queue(u)
    \/ \E u \in Senders : queue_previous(u)
    \/ \E u \in Senders : queue_next(u)

SpecPager == InitPager /\ [][NextPager]_vars

\* C26: in the paginated queue view, a press of the Previous button shown on
\* the page that starts at offset k (k >= 10) displays the page that starts
\* at offset k - 10, and a press of Next displays the page that starts at
\* offset k + 10 (so that Next and then Previous lead back to the same page).
C26_Step ==
    \A u \in Senders :
        /\ (reply.offset >= PageSize /\ queue_previous(u)) =>
               /\ reply'.kind = "queue"
               /\ reply'.offset = reply.offset - PageSize
        /\ queue_next(u) =>
               /\ reply'.kind = "queue"
               /\ reply'.offset = reply.offset + PageSize

C26_PrevNext == [][C26_Step]_vars

(* ------------------ the records of the spam guard ---------------------- *)

\* what an invocation of the command by the user may do to spam_protection
spam_frame(user_id, command) ==
    /\ DOMAIN spam_protection' \subseteq DOMAIN spam_protection \cup {<<user_id, command>>}
    /\ \A k \in DOMAIN spam_protection :
           k # <<user_id, command>> =>
               /\ k \in DOMAIN spam_protection'
               /\ spam_protection'[k] = spam_protection[k]
    /\ spam_bypass(user_id) => spam_protection' = spam_protection
    /\ reply'.kind = "spam" => spam_protection' = spam_protection

\* C27: a command invocation that the spam guard rejects leaves the
\* timestamp of the (user, command) pair unchanged, so that repeated rejected
\* attempts do not extend the waiting window; an invocation by an admin
\* writes no spam-protection record; and an invocation of one command never
\* changes the record of another command or of another user.
C27_Step ==
    \A u \in UserIds :
        /\ cmd_start(u) => spam_frame(u, "start")
        /\ (\E arg \in LikeArgs : cmd_like(u, arg)) => spam_frame(u, "like")

C27_SpamFrame == [][C27_Step]_vars

\* user 2 has been refused a command two ticks or more after the admitted
\* invocation, whose record is still the one in the table; user 3 has become
\* an admin, and 3's record of /start is older than the clock
C27_Witness ==
    /\ reply.kind = "spam"
    /\ reply.user = 2
    /\ now - spam_protection[<<2, reply.command>>].at >= 2
    /\ is_admin(3)
    /\ spam_protection[<<3, "start">>].at < now

(* --------------------- SpecLevels: every way to a level ---------------- *)

\* what the admin types when asked for level_threshold, for a user id, for
\* points, for a level
LevelThresholdTexts == {Numeral(0), Numeral(TuningValue)}
LevelUserTexts == {Numeral(2)}
LevelPointTexts == {Numeral(-DEFAULT_LEVEL_THRESHOLD), Numeral(DEFAULT_LEVEL_THRESHOLD)}
LevelTexts == {Numeral(0), Numeral(1), Numeral(MaxLevel)}

\* From InitRace: likes and submissions of the two users, changes of
\* level_threshold, points added to and taken from user 2, levels set for
\* user 2.
NextLevels ==
    \/ \E u \in Senders, arg \in RaceLikeArgs : cmd_like(u, arg)
    \/ \E u \in Senders : cmd_submit(u, UrlText, RaceVideos)
    \/ admin_set_level_threshold(1)
    \/ admin_add_points(1)
    \/ admin_set_level(1)
    \/ \E text \in LevelThresholdTexts : process_admin_action(1, text)
    \/ \E text \in LevelUserTexts : process_admin_user_id(1, text)
    \/ \E text \in LevelPointTexts :
            process_admin_points(1, text, MaxPointSteps * DEFAULT_LEVEL_THRESHOLD)
    \/ \E text \in LevelTexts : process_admin_level(1, text)

SpecLevels == InitRace /\ [][NextLevels]_vars

\* C30: in every reachable state the level of every user is >= 1, under any
\* sequence of likes, submissions, setting changes, admin add-points (the
\* amount any integer, a negative one included) and admin set-level.
C30_LevelAtLeastOne == \A u \in DOMAIN users : users[u].level >= 1

\* points have been taken from a user who is left with fewer than none, at
\* level 1
C30_Witness ==
    /\ reply.kind = "points_added"
    /\ reply.n < 0
    /\ \E u \in DOMAIN users :
           /\ users[u].points < 0
           /\ users[u].level = 1
           /\ users[u].likes_given > 0

(* ---------------- SpecDispatch: callbacks through the dispatcher ------- *)

\* the callback query handlers in the order of their registration: the
\* function, the words of the payload in its filter, and whether the filter
\* is c.data == payload (exact) or c.data.startswith(word + '_')
callback_query_handlers ==
    << [name |-> "process_queue_pagination", words |-> <<"queue">>, exact |-> FALSE],
       [name |-> "process_admin_callback", words |-> <<"admin">>, exact |-> FALSE],
       [name |-> "admin_delete_video", words |-> <<"admin", "delete", "video">>, exact |-> TRUE],
       [name |-> "admin_clear_queue", words |-> <<"admin", "clear", "queue">>, exact |-> TRUE],
       [name |-> "admin_confirm_clear_queue", words |-> <<"admin", "confirm", "clear">>,
        exact |-> TRUE],
       [name |-> "admin_add_admin", words |-> <<"admin", "add", "admin">>, exact |-> TRUE],
       [name |-> "admin_reset_likes", words |-> <<"admin", "reset", "likes">>, exact |-> TRUE],
       [name |-> "admin_add_points", words |-> <<"admin", "add", "points">>, exact |-> TRUE],
       [name |-> "admin_set_level", words |-> <<"admin", "set", "level">>, exact |-> TRUE],
       [name |-> "admin_block_user", words |-> <<"admin", "block", "user">>, exact |-> TRUE],
       [name |-> "admin_announcement", words |-> <<"admin", "announcement">>, exact |-> TRUE],
       [name |-> "admin_set_likes_required", words |-> <<"admin", "set", "likes", "required">>,
        exact |-> TRUE],
       [name |-> "admin_set_spam_timeout", words |-> <<"admin", "set", "spam", "timeout">>,
        exact |-> TRUE],
       [name |-> "admin_set_points_per_like",
        words |-> <<"admin", "set", "points", "per", "like">>, exact |-> TRUE],
       [name |-> "admin_set_points_per_submission",
        words |-> <<"admin", "set", "points", "per", "submission">>, exact |-> TRUE],
       [name |-> "admin_set_level_threshold", words |-> <<"admin", "set", "level", "threshold">>,
        exact |-> TRUE] >>

\* the lambda of the handler's decorator
callback_filter(handler, data) ==
    IF handler.exact
    THEN data.words = handler.words
    ELSE starts_with(data, handler.words[1])

\* the body of the handler of that name
callback_handler(name, u, data) ==
    CASE name = "process_queue_pagination" -> process_queue_pagination(u, data)
      [] name = "process_admin_callback" -> process_admin_callback(u, data)
      [] name = "admin_delete_video" -> admin_delete_video(u)
      [] name = "admin_clear_queue" -> admin_clear_queue(u)
      [] name = "admin_confirm_clear_queue" -> admin_confirm_clear_queue(u)
      [] name = "admin_add_admin" -> admin_add_admin(u)
      [] name = "admin_reset_likes" -> admin_reset_likes(u)
      [] name = "admin_add_points" -> admin_add_points(u)
      [] name = "admin_set_level" -> admin_set_level(u)
      [] name = "admin_block_user" -> admin_block_user(u)
      [] name = "admin_announcement" -> admin_announcement(u)
      [] name = "admin_set_likes_required" -> admin_set_likes_required(u)
      [] name = "admin_set_spam_timeout" -> admin_set_spam_timeout(u)
      [] name = "admin_set_points_per_like" -> admin_set_points_per_like(u)
      [] name = "admin_set_points_per_submission" -> admin_set_points_per_submission(u)
      [] name = "admin_set_level_threshold" -> admin_set_level_threshold(u)

\* the place, in the order of registration, of the first handler whose
\* filter passes the payload; 0 when none does
first_match(data) ==
    LET passing == {i \in DOMAIN callback_query_handlers :
                        callback_filter(callback_query_handlers[i], data)}
    IN IF passing = {} THEN 0
       ELSE CHOOSE i \in passing : \A j \in passing : i <= j

\* a callback query of user u arrives: the handlers are tried in the order
\* of their registration and the first whose filter passes is run, alone
callback_query(u, data) ==
    LET i == first_match(data)
    IN IF i = 0
       THEN /\ reply' = NoReply
            /\ UNCHANGED <<users, videos, video_seq, likes, settings, spam_protection, now,
                           utc_offset, inflight, streak_paid, fsm>>
       ELSE callback_handler(callback_query_handlers[i].name, u, data)

\* the handlers registered for one payload exactly
ExactHandlers ==
    {callback_query_handlers[i] : i \in {j \in DOMAIN callback_query_handlers :
                                            callback_query_handlers[j].exact}}

\* the payloads of the buttons that the bot shows: those of the panel's
\* sections, those of the admin actions, those of the pager
ButtonData ==
    PanelData
    \cup {Data(handler.words) : handler \in ExactHandlers}
    \cup {QueueData(action, offset) : action \in {"prev", "next"}, offset \in {0, PageSize}}

\* From InitPanel: the buttons pressed by every user, next to the likes,
\* submissions and queue views of the two senders.
NextDispatch ==
    \/ \E u \in UserIds, data \in ButtonData : callback_query(u, data)
    \/ \E u \in Senders, arg \in RaceLikeArgs : cmd_like(u, arg)
    \/ \E u \in Senders : cmd_submit(u, UrlText, RaceVideos)
    \/ \E u \in Senders : cmd_queue(u)

SpecDispatch == InitPanel /\ [][NextDispatch]_vars

\* C29: with the callback handlers tried in registration order and the first
\* matching one taken, a callback of an admin whose payload is
\* admin_delete_video, admin_clear_queue, admin_confirm_clear,
\* admin_add_admin, admin_reset_likes, admin_add_points, admin_set_level,
\* admin_block_user, admin_announcement or admin_set_<setting> is handled by
\* the handler registered for exactly that payload; in particular
\* admin_confirm_clear of an admin leaves the videos and the likes empty.
C29_Step ==
    \A u \in UserIds, handler \in ExactHandlers :
        (is_admin(u) /\ callback_query(u, Data(handler.words)))
            => /\ callback_handler(handler.name, u, Data(handler.words))
               /\ handler.name = "admin_confirm_clear_queue"
                    => (videos' = << >> /\ likes' = EmptyBag)

C29_ExactHandlerTaken == [][C29_Step]_vars
====
